---- MODULE Spec2Model ----
(***************************************************************************)
(* A model of the RINEX observation reader of package rinex                *)
(* (src/rinex/obsreader.go): ObsReader.Parse, the header dispatcher, the    *)
(* version-2 and version-3 record decoders and the epoch assembler.         *)
(*                                                                          *)
(* A line is a sequence of one-character strings; Go's 0-based indexing     *)
(* line[i] and slicing line[a:b] are kept through At and Slice, so that     *)
(* the column numbers of the model are those of the source.  Each step of   *)
(* the model is one iteration of the scanner loop of Parse: it reads one    *)
(* raw line, frames it, and runs the whole handler the mode selects.        *)
(***************************************************************************)
EXTENDS Integers, Sequences, FiniteSets, TLC

VARIABLES
    or,        \* the ObsReader struct (its fields, callbacks included)
    result,    \* where the Parse call is: idle, running, ok, error, panic
    err,       \* the error value Parse returned ("nil" while none)
    line,      \* the raw line read by the latest iteration of the loop
    route,     \* the handler that latest line was given to
    calls,     \* the callback invocations made while handling that line
    peers,     \* the readers of concurrent Parse calls, one per goroutine
    nread,     \* how many lines the scanner has delivered
    hdrLeft,   \* lines still owed to the header dispatcher by the latest event epoch
    intro,     \* what the latest epoch-intro line declared
    prevTime,  \* the timestamp fields of obsRec before the latest intro line
    pool       \* the goroutines and channels of the countobs command

vars == <<or, result, err, line, route, calls, peers, nread, hdrLeft, intro, prevTime, pool>>

(***************************************************************************)
(* Bounds of the model.                                                     *)
(***************************************************************************)
MaxLines == 5

(***************************************************************************)
(* Bytes and characters.                                                    *)
(***************************************************************************)
NUL == "NUL"     \* the zero byte of an unset [3]byte

Ascii ==
    <<" ", "!", "\"", "#", "$", "%", "&", "'", "(", ")", "*", "+", ",", "-", ".", "/",
      "0", "1", "2", "3", "4", "5", "6", "7", "8", "9", ":", ";", "<", "=", ">", "?",
      "@", "A", "B", "C", "D", "E", "F", "G", "H", "I", "J", "K", "L", "M", "N", "O",
      "P", "Q", "R", "S", "T", "U", "V", "W", "X", "Y", "Z", "[", "\\", "]", "^", "_",
      "(grave)", "a", "b", "c", "d", "e", "f", "g", "h", "i", "j", "k", "l", "m", "n", "o",
      "p", "q", "r", "s", "t", "u", "v", "w", "x", "y", "z", "{", "|", "}", "~">>

\* The byte value of a character.
Ord(c) ==
    IF c = NUL THEN 0
    ELSE 31 + (CHOOSE i \in 1..Len(Ascii) : Ascii[i] = c)

\* Go's byte subtraction a - b, which wraps modulo 2^8.
ByteSub(a, b) == (a - b + 256) % 256

At(s, i) == s[i + 1]                    \* s[i]
Slice(s, a, b) == SubSeq(s, a + 1, b)   \* s[a:b]
Spaces(n) == [i \in 1..n |-> " "]

Digits == {"0", "1", "2", "3", "4", "5", "6", "7", "8", "9"}

(***************************************************************************)
(* Error values.  A panic is kept apart from a returned error.              *)
(***************************************************************************)
NIL == "nil"
ErrStop == "callback asked to stop"
PanicIndex == "panic: index out of range"
PanicSlice == "panic: slice bounds out of range"
PanicVersion == "panic: RINEX header did not declare its version"
Panics == {PanicIndex, PanicSlice, PanicVersion}

(***************************************************************************)
(* strings.TrimSpace, strconv.ParseUint and strconv.ParseFloat.             *)
(* A float is kept as an exact decimal: sign, integer part and the          *)
(* fractional digits without trailing zeros.  The lines of the model write  *)
(* numbers as plain decimals only (no exponent, no inf/nan, no hex).        *)
(***************************************************************************)
trimTo(s, keep) ==
    IF keep = {} THEN <<>>
    ELSE SubSeq(s, CHOOSE i \in keep : \A j \in keep : i <= j,
                   CHOOSE i \in keep : \A j \in keep : i >= j)
TrimSpace(s) == trimTo(s, {i \in 1..Len(s) : s[i] # " "})

RECURSIVE DecValue(_)
DecValue(ds) ==
    IF ds = <<>> THEN 0
    ELSE 10 * DecValue(SubSeq(ds, 1, Len(ds) - 1)) + (Ord(ds[Len(ds)]) - 48)

Pow2(n) == IF n = 8 THEN 256 ELSE IF n = 16 THEN 65536 ELSE 2147483647

\* strconv.ParseUint(t, 10, bitSize): digits only, within bitSize bits.
uintOf(t, bitSize) ==
    IF t = <<>> \/ \E i \in 1..Len(t) : t[i] \notin Digits
    THEN [err |-> "strconv.ParseUint: invalid syntax", v |-> 0]
    ELSE IF Len(t) > 9 \/ DecValue(t) >= Pow2(bitSize)
    THEN [err |-> "strconv.ParseUint: value out of range", v |-> 0]
    ELSE [err |-> NIL, v |-> DecValue(t)]

parseUint(text, bitSize) == uintOf(TrimSpace(text), bitSize)

RECURSIVE StripZeros(_)
StripZeros(ds) ==
    IF ds # <<>> /\ ds[Len(ds)] = "0" THEN StripZeros(SubSeq(ds, 1, Len(ds) - 1))
    ELSE ds

Zero == [neg |-> FALSE, ip |-> 0, fd |-> <<>>]

\* The value of the mantissa m (digits around dot, the place of the point).
decimalOf(neg, m, dot) ==
    IF /\ \A i \in 1..Len(m) : i = dot \/ m[i] \in Digits
       /\ Len(m) > (IF dot <= Len(m) THEN 1 ELSE 0)
    THEN [err |-> NIL,
          v |-> IF DecValue(SubSeq(m, 1, dot - 1)) = 0
                   /\ StripZeros(SubSeq(m, dot + 1, Len(m))) = <<>>
                THEN Zero
                ELSE [neg |-> neg, ip |-> DecValue(SubSeq(m, 1, dot - 1)),
                      fd |-> StripZeros(SubSeq(m, dot + 1, Len(m)))]]
    ELSE [err |-> "strconv.ParseFloat: invalid syntax", v |-> Zero]

mantissaOf(neg, m, dots) ==
    decimalOf(neg, m, IF dots = {} THEN Len(m) + 1
                      ELSE CHOOSE i \in dots : \A j \in dots : i <= j)

\* strconv.ParseFloat(t, bitSize): an optional sign, digits, at most one point.
floatOf(t) ==
    IF t # <<>> /\ t[1] \in {"+", "-"}
    THEN mantissaOf(t[1] = "-", Tail(t), {i \in 1..Len(t) - 1 : t[i + 1] = "."})
    ELSE mantissaOf(FALSE, t, {i \in 1..Len(t) : t[i] = "."})

parseFloat(text, bitSize) == floatOf(TrimSpace(text))

\* int(math.Round(x)) of a parsed float: half away from zero.
Round(x) ==
    LET mag == x.ip + (IF x.fd # <<>> /\ Ord(x.fd[1]) - 48 >= 5 THEN 1 ELSE 0)
    IN  IF x.neg THEN 0 - mag ELSE mag

(***************************************************************************)
(* The zero values of the record types.                                     *)
(***************************************************************************)
ZeroObservation == [Value |-> Zero, LLI |-> 0, SignalStrength |-> 0]
ZeroSVObservation == [PRN |-> <<NUL, NUL, NUL>>, Obs |-> <<>>]

\* obsRec.Sat is a Go slice: len entries are visible of a backing array arr
\* whose length is the capacity; reslicing keeps what the array holds.
ZeroObservationRecord ==
    [Year |-> 0, Month |-> 0, Day |-> 0, Hour |-> 0, Minute |-> 0,
     EpochFlag |-> 0, Second |-> Zero, Offset |-> Zero,
     Sat |-> [len |-> 0, arr |-> <<>>]]

\* The record as a callback sees it: the visible part of the satellite list.
Visible(rec) == [rec EXCEPT !.Sat = SubSeq(rec.Sat.arr, 1, rec.Sat.len)]

TimeOf(rec) == <<rec.Year, rec.Month, rec.Day, rec.Hour, rec.Minute, rec.Second>>

\* A catalog entry is a Go slice of codes with its capacity.
CatalogLen(o, sys) ==
    IF sys \in DOMAIN o.Observations THEN Len(o.Observations[sys].codes) ELSE 0

\* What a handler hands back: the reader as it left it, the error it returned
\* and the callback invocations it made.
Ret(o, e) == [or |-> o, err |-> e, calls |-> <<>>]

\* A callback invocation and the value the callback returned.
HeaderCall(label, value, cb) ==
    [fn |-> "HeaderFunc", label |-> label, value |-> value, ret |-> cb]
ObsCall(rec, cb) == [fn |-> "ObsFunc", rec |-> Visible(rec), ret |-> cb]

\* A variant of callObsFunc that refuses to drop a record when ObsFunc is
\* not set.
callObsFuncRequired(o, cb) ==
    IF o.ObsFunc
    THEN [or |-> o, err |-> cb, calls |-> <<ObsCall(o.obsRec, cb)>>]
    ELSE Ret(o, "ObsFunc is not set")

\* or.ObsFunc(or.obsRec) when ObsFunc is set; cb is what the callback returns.
callObsFunc(o, cb) ==
    IF o.ObsFunc
    THEN [or |-> o, err |-> cb, calls |-> <<ObsCall(o.obsRec, cb)>>]
    ELSE Ret(o, NIL)

(***************************************************************************)
(* Header labels (columns 61-80) and the special handlers.                  *)
(***************************************************************************)
Label(text) == text \o Spaces(20 - Len(text))

LabelVersion ==
    <<"R","I","N","E","X"," ","V","E","R","S","I","O","N"," ","/"," ","T","Y","P","E">>
LabelEndOfHeader == Label(<<"E","N","D"," ","O","F"," ","H","E","A","D","E","R">>)
LabelTimeOfFirstObs ==
    Label(<<"T","I","M","E"," ","O","F"," ","F","I","R","S","T"," ","O","B","S">>)
LabelTypesOfObserv ==
    Label(<<"#"," ","/"," ","T","Y","P","E","S"," ","O","F"," ","O","B","S","E","R","V">>)
LabelSysObsTypes ==
    Label(<<"S","Y","S"," ","/"," ","#"," ","/"," ","O","B","S"," ","T","Y","P","E","S">>)
LabelComment == Label(<<"C","O","M","M","E","N","T">>)

\* A variant of versionOf that does not look at the file type.
versionOfAnyType(o, value, f) ==
    IF f.err # NIL THEN Ret(o, f.err)
    ELSE IF Round(f.v) # 2 /\ Round(f.v) # 3
    THEN Ret([o EXCEPT !.version = Round(f.v)], "Invalid RINEX version")
    ELSE Ret([o EXCEPT !.version = Round(f.v)], NIL)

\* handleRINEXVersion, once the version number f is parsed.
versionOf(o, value, f) ==
    IF f.err # NIL THEN Ret(o, f.err)
    ELSE IF Round(f.v) # 2 /\ Round(f.v) # 3
    THEN Ret([o EXCEPT !.version = Round(f.v)], "Invalid RINEX version")
    ELSE IF At(value, 20) # "O"
    THEN Ret([o EXCEPT !.version = Round(f.v)], "Expected observation file")
    ELSE Ret([o EXCEPT !.version = Round(f.v)], NIL)

handleRINEXVersion(o, value) == versionOf(o, value, parseFloat(Slice(value, 0, 9), 32))

handleEndOfHeader(o, value) == Ret([o EXCEPT !.inHeader = FALSE], NIL)

\* handleTimeOfFirstObs, once the year is parsed.
firstObsOf(o, year) ==
    IF year.err # NIL THEN Ret(o, year.err)
    ELSE Ret([o EXCEPT !.year = year.v], NIL)

\* A variant of handleTimeOfFirstObs that takes the year under any version.
handleTimeOfFirstObsAnyVersion(o, value) ==
    firstObsOf(o, parseUint(Slice(value, 0, 6), 16))

handleTimeOfFirstObs(o, value) ==
    IF o.version # 2 THEN Ret(o, NIL)
    ELSE firstObsOf(o, parseUint(Slice(value, 0, 6), 16))

\* The capacity append gives a full slice of [3]byte: the runtime doubles the
\* capacity (or takes the needed length) and rounds the allocation up to a
\* malloc size class.
SizeClasses == <<8, 16, 24, 32, 48, 64, 80, 96, 112, 128, 144, 160, 176, 192>>
classOf(fits) == SizeClasses[CHOOSE i \in fits : \A j \in fits : i <= j]
GrowCap(oldCap, newLen) ==
    classOf({i \in 1..Len(SizeClasses) :
                SizeClasses[i] >= 3 * (IF newLen > 2 * oldCap THEN newLen
                                       ELSE 2 * oldCap)}) \div 3

\* append(s, code)
Append3(s, code) ==
    [codes |-> Append(s.codes, code),
     cap |-> IF Len(s.codes) < s.cap THEN s.cap ELSE GrowCap(s.cap, Len(s.codes) + 1)]

NilSlice == [codes |-> <<>>, cap |-> 0]
EntryOf(o, sys) ==
    IF sys \in DOMAIN o.Observations THEN o.Observations[sys] ELSE NilSlice
SetEntry(o, sys, s) ==
    [o EXCEPT !.Observations =
        [k \in DOMAIN o.Observations \cup {sys} |->
            IF k = sys THEN s ELSE o.Observations[k]]]

\* The loop of handleNumTypesOfObserv: up to 9 codes, each appended before
\* the fullness test.
RECURSIVE TypesLoop(_, _, _)
typesNext(s1, value, i) ==
    IF Len(s1.codes) = s1.cap THEN s1 ELSE TypesLoop(s1, value, i + 1)
TypesLoop(s, value, i) ==
    IF i >= 9 THEN s
    ELSE typesNext(Append3(s, <<At(value, 10 + 6 * i), At(value, 11 + 6 * i), " ">>),
                   value, i)

\* handleNumTypesOfObserv on the first line, once the count is parsed.
typesFirst(o, value, count) ==
    IF count.err # NIL THEN Ret(o, count.err)
    ELSE Ret(SetEntry(o, " ", TypesLoop([codes |-> <<>>, cap |-> count.v], value, 0)),
             NIL)

handleNumTypesOfObserv(o, value) ==
    IF o.version # 2 THEN Ret(o, NIL)
    ELSE IF DOMAIN o.Observations = {}
    THEN typesFirst(o, value, parseUint(Slice(value, 0, 6), 32))
    ELSE Ret(SetEntry(o, " ", TypesLoop(EntryOf(o, " "), value, 0)), NIL)

\* The loop of handleSysNumObsTypes: up to 13 codes while the slice has room;
\* copy takes the first three of the four columns of a slot.
RECURSIVE SysLoop(_, _, _)
SysLoop(s, value, i) ==
    IF i >= 13 \/ Len(s.codes) >= s.cap THEN s
    ELSE SysLoop([s EXCEPT !.codes = Append(@, Slice(value, 7 + i * 4, 10 + i * 4))],
                 value, i + 1)

\* A variant of sysStore that never clears the marker.
sysStoreKeepMarker(o, sys, s) ==
    Ret([SetEntry(o, sys, s) EXCEPT !.lastSystem = Ord(sys)], NIL)

\* The end of handleSysNumObsTypes: the entry stored, the marker cleared
\* when the entry is full.
sysStore(o, sys, s) ==
    Ret([SetEntry(o, sys, s) EXCEPT
            !.lastSystem = IF Len(s.codes) = s.cap THEN 0 ELSE Ord(sys)], NIL)

\* handleSysNumObsTypes on the first line of a system, once the count is parsed.
sysFirst(o, value, count) ==
    IF count.err # NIL
    THEN Ret([o EXCEPT !.lastSystem = Ord(At(value, 0))], count.err)
    ELSE sysStore(o, At(value, 0), SysLoop([codes |-> <<>>, cap |-> count.v], value, 0))

\* The map key whose byte is b.
Chr(b) == CHOOSE c \in {NUL} \cup {Ascii[i] : i \in 1..Len(Ascii)} : Ord(c) = b

\* handleSysNumObsTypes on a continuation line of system sys.
sysMore(o, value, sys) == sysStore(o, sys, SysLoop(EntryOf(o, sys), value, 0))

handleSysNumObsTypes(o, value) ==
    IF o.version # 3 THEN Ret(o, NIL)
    ELSE IF o.lastSystem = 0
    THEN sysFirst(o, value, parseUint(Slice(value, 3, 6), 32))
    ELSE sysMore(o, value, Chr(o.lastSystem))

\* specialHeaders[label], applied.
specialHeaders(o, label, value) ==
    CASE label = LabelVersion -> handleRINEXVersion(o, value)
      [] label = LabelEndOfHeader -> handleEndOfHeader(o, value)
      [] label = LabelTimeOfFirstObs -> handleTimeOfFirstObs(o, value)
      [] label = LabelTypesOfObserv -> handleNumTypesOfObserv(o, value)
      [] label = LabelSysObsTypes -> handleSysNumObsTypes(o, value)
      [] OTHER -> Ret(o, NIL)

\* A variant of deliverHeader that calls HeaderFunc whatever the special
\* handler returned.
deliverHeaderAlways(o, h, label, value, cb) ==
    IF o.HeaderFunc
    THEN [or |-> h.or, err |-> IF h.err = NIL THEN cb ELSE h.err,
          calls |-> <<HeaderCall(label, value, cb)>>]
    ELSE h

\* The end of handleHeader: the line goes to HeaderFunc unless the special
\* handler failed.
deliverHeader(o, h, label, value, cb) ==
    IF h.err = NIL /\ o.HeaderFunc
    THEN [or |-> h.or, err |-> cb, calls |-> <<HeaderCall(label, value, cb)>>]
    ELSE h

\* The start of handleHeader: a line of an embedded header block counts down.
countDown(o) ==
    IF o.count > 0
    THEN [o EXCEPT !.count = @ - 1, !.inHeader = IF o.count - 1 = 0 THEN FALSE ELSE @]
    ELSE o

\* A variant of handleHeader that splits the line one column early.
handleHeaderSplitEarly(o, ln, cb) ==
    deliverHeader(o, specialHeaders(countDown(o), Slice(ln, 59, 79), Slice(ln, 0, 59)),
                  Slice(ln, 59, 79), Slice(ln, 0, 59), cb)

\* handleHeader: one framed line in header mode.
handleHeader(o, ln, cb) ==
    deliverHeader(o, specialHeaders(countDown(o), Slice(ln, 60, 80), Slice(ln, 0, 60)),
                  Slice(ln, 60, 80), Slice(ln, 0, 60), cb)

(***************************************************************************)
(* RINEX 2 decoder.                                                         *)
(***************************************************************************)
SetTime(o, year, month, day, hour, minute, second) ==
    [o EXCEPT !.obsRec.Year = year, !.obsRec.Month = month, !.obsRec.Day = day,
              !.obsRec.Hour = hour, !.obsRec.Minute = minute,
              !.obsRec.Second = second]

\* A variant of ExtendYear that never moves to the next century.
\* A variant of ExtendYear with the fixed pivot of the RINEX 2 format: 80-99
\* are 1980-1999 and 00-79 are 2000-2079, whatever the carried year.
ExtendYearPivot(carried, y) == IF y >= 80 THEN 1900 + y ELSE 2000 + y

ExtendYearSameCentury(carried, y) == ((carried \div 100) * 100 + y) % 65536

\* "Extend year to four digits": the carried year after a two-digit year y,
\* in uint16 arithmetic.
ExtendYear(carried, y) ==
    LET c1 == IF y < carried % 100 THEN (carried + 100) % 65536 ELSE carried
    IN  ((c1 \div 100) * 100 + y) % 65536

\* The end of parseV2Epoch for a dated line, the six fields parsed: the
\* first field that failed is the error, else the year is extended and the
\* timestamp stored.
datedV2(o, year, month, day, hour, minute, second) ==
    IF year.err # NIL THEN Ret(o, year.err)
    ELSE IF month.err # NIL THEN Ret(o, month.err)
    ELSE IF day.err # NIL THEN Ret(o, day.err)
    ELSE IF hour.err # NIL THEN Ret(o, hour.err)
    ELSE IF minute.err # NIL THEN Ret(o, minute.err)
    ELSE IF second.err # NIL THEN Ret(o, second.err)
    ELSE Ret(SetTime([o EXCEPT !.year = ExtendYear(o.year, year.v)],
                     ExtendYear(o.year, year.v),
                     month.v, day.v, hour.v, minute.v, second.v), NIL)

\* A variant of parseV2Epoch that leaves the timestamp of the record alone
\* when the date is blank.
parseV2EpochKeepTime(o, ln, flag) ==
    IF At(ln, 2) # " "
    THEN datedV2(o, parseUint(Slice(ln, 1, 3), 16), parseUint(Slice(ln, 4, 6), 8),
                 parseUint(Slice(ln, 7, 9), 8), parseUint(Slice(ln, 10, 12), 8),
                 parseUint(Slice(ln, 13, 15), 8), parseFloat(Slice(ln, 15, 26), 32))
    ELSE IF flag = "0" \/ flag = "1"
    THEN Ret(o, "RINEX 2 observation requires epoch")
    ELSE Ret(o, NIL)

\* parseV2Epoch: the date/time stamp of an EPOCH/SAT or EVENT FLAG line.
parseV2Epoch(o, ln, flag) ==
    IF At(ln, 2) # " "
    THEN datedV2(o, parseUint(Slice(ln, 1, 3), 16), parseUint(Slice(ln, 4, 6), 8),
                 parseUint(Slice(ln, 7, 9), 8), parseUint(Slice(ln, 10, 12), 8),
                 parseUint(Slice(ln, 13, 15), 8), parseFloat(Slice(ln, 15, 26), 32))
    ELSE IF flag = "0" \/ flag = "1"
    THEN Ret(o, "RINEX 2 observation requires epoch")
    ELSE Ret(SetTime(o, 0, 0, 0, 0, 0, Zero), NIL)

\* make([]SVObservation, 0, n) when the capacity is below n, else the slice kept.
EnsureSatCap(o, n) ==
    IF Len(o.obsRec.Sat.arr) < n
    THEN [o EXCEPT !.obsRec.Sat = [len |-> 0, arr |-> [i \in 1..n |-> ZeroSVObservation]]]
    ELSE o

\* The start of an intro line, common to both versions: flag, offset and
\* satellite list reset.
ResetRecord(o, flag) ==
    [o EXCEPT !.obsRec.EpochFlag = ByteSub(Ord(flag), 48),
              !.obsRec.Offset = Zero,
              !.obsRec.Sat.len = 0]

\* The end of parseV2ObsIntro for flags 0, 1 and 6: the receiver time offset
\* and the capacity of the satellite list.
offsetV2(o, ln, offset) ==
    IF offset.err # NIL THEN Ret(o, offset.err)
    ELSE Ret(EnsureSatCap([o EXCEPT !.obsRec.Offset = offset.v], o.count), NIL)

\* parseV2ObsIntro once the epoch is parsed: flags 2-5 emit the record and
\* turn the next count lines into header lines.
eventV2(ep, ln, flag, cb) ==
    IF ep.err # NIL THEN ep
    ELSE IF flag # "0" /\ flag # "1" /\ flag # "6"
    THEN callObsFunc([ep.or EXCEPT !.inHeader = ep.or.count > 0], cb)
    ELSE IF At(ln, 79) # " "
    THEN offsetV2(ep.or, ln, parseFloat(Slice(ln, 68, 80), 64))
    ELSE Ret(EnsureSatCap(ep.or, ep.or.count), NIL)

\* parseV2ObsIntro once the count is parsed.
countV2(o, ln, flag, count, cb) ==
    IF count.err # NIL THEN Ret(o, count.err)
    ELSE eventV2(parseV2Epoch([o EXCEPT !.count = count.v], ln, flag), ln, flag, cb)

\* parseV2ObsIntro: an EPOCH/SAT or EVENT FLAG line.
parseV2ObsIntro(o, ln, cb) ==
    countV2(ResetRecord(o, At(ln, 28)), ln, At(ln, 28),
            parseUint(Slice(ln, 29, 32), 16), cb)

\* One PRN slot: the identifier with a blank system letter read as GPS.
prnOf(prn) ==
    [PRN |-> IF prn[1] = " " THEN <<"G", prn[2], prn[3]>> ELSE prn, Obs |-> <<>>]

\* The loop of parseV2PRNs over the 12 PRN slots of a line.
RECURSIVE PRNLoop(_, _, _)
PRNLoop(o, ln, i) ==
    IF i >= 12 THEN Ret(o, NIL)
    ELSE IF At(ln, 3 * i + 34) = " "
    THEN IF o.obsRec.Sat.len < o.count THEN Ret(o, "PRN list terminated early")
         ELSE Ret(o, NIL)
    ELSE IF o.obsRec.Sat.len + 1 > Len(o.obsRec.Sat.arr) THEN Ret(o, PanicSlice)
    ELSE PRNLoop([o EXCEPT !.obsRec.Sat.len = @ + 1,
                           !.obsRec.Sat.arr[o.obsRec.Sat.len + 1] =
                               prnOf(Slice(ln, 3 * i + 32, 3 * i + 35))],
                 ln, i + 1)

\* The end of parseV2PRNs: "Are we at the end of the PRN list?"
prnsEnd(r) ==
    IF r.err # NIL THEN r
    ELSE IF r.or.obsRec.Sat.len = r.or.count
    THEN Ret([r.or EXCEPT !.lastSystem = 2, !.prnIndex = 0, !.obsIndex = 0], NIL)
    ELSE Ret([r.or EXCEPT !.lastSystem = 1], NIL)

\* A variant of parseV2PRNs for which a blank slot always ends the list.
RECURSIVE PRNLoopLenient(_, _, _)
PRNLoopLenient(o, ln, i) ==
    IF i >= 12 \/ At(ln, 3 * i + 34) = " " THEN Ret(o, NIL)
    ELSE IF o.obsRec.Sat.len + 1 > Len(o.obsRec.Sat.arr) THEN Ret(o, PanicSlice)
    ELSE PRNLoopLenient([o EXCEPT !.obsRec.Sat.len = @ + 1,
                                  !.obsRec.Sat.arr[o.obsRec.Sat.len + 1] =
                                      prnOf(Slice(ln, 3 * i + 32, 3 * i + 35))],
                        ln, i + 1)
parseV2PRNsLenient(o, ln) == prnsEnd(PRNLoopLenient(o, ln, 0))

\* A variant of parseV2PRNs that starts the list anew on every line.
parseV2PRNsAnew(o, ln) == prnsEnd(PRNLoop([o EXCEPT !.obsRec.Sat.len = 0], ln, 0))

\* parseV2PRNs: the PRN list of the intro line or of a continuation line.
parseV2PRNs(o, ln) == prnsEnd(PRNLoop(o, ln, 0))

\* s extended with zero observations to length n, as the append loop does.
PadObs(s, n) == s \o [k \in 1..(n - Len(s)) |-> ZeroObservation]

\* One 16-column field of an observation line, its value parsed.
fieldOf(entry, value) ==
    [Value |-> value,
     LLI |-> IF At(entry, 14) # " " THEN ByteSub(Ord(At(entry, 14)), 48) ELSE 0,
     SignalStrength |->
         IF At(entry, 15) # " " THEN ByteSub(Ord(At(entry, 15)), 48) ELSE 0]

\* A variant of storeObs whose append loop runs once too often.
storeObsExtra(o, pos, obs) ==
    [o EXCEPT !.obsRec.Sat.arr[o.prnIndex + 1].Obs =
                  [PadObs(@, pos + 2) EXCEPT ![pos + 1] = obs]]

\* The observation obs stored at index pos of the current satellite.
storeObs(o, pos, obs) ==
    [o EXCEPT !.obsRec.Sat.arr[o.prnIndex + 1].Obs =
                  [PadObs(@, pos + 1) EXCEPT ![pos + 1] = obs]]

\* The loop of parseV2Observations over the up to 5 fields of a line.
RECURSIVE ObsLoop(_, _, _, _)
\* A variant of obsField that parses the first 14 columns of every field.
obsFieldParsed(o, ln, i, nObs, entry, value) ==
    IF parseFloat(Slice(entry, 0, 14), 64).err # NIL
    THEN Ret(o, parseFloat(Slice(entry, 0, 14), 64).err)
    ELSE ObsLoop(storeObs(o, o.obsIndex + i,
                          fieldOf(entry, parseFloat(Slice(entry, 0, 14), 64).v)),
                 ln, i + 1, nObs)
obsField(o, ln, i, nObs, entry, value) ==
    IF value.err # NIL THEN Ret(o, value.err)
    ELSE ObsLoop(storeObs(o, o.obsIndex + i, fieldOf(entry, value.v)), ln, i + 1, nObs)
ObsLoop(o, ln, i, nObs) ==
    IF ~(i < 5 /\ i < nObs) THEN Ret(o, NIL)
    ELSE IF At(ln, i * 16 + 10) = "."
    THEN obsField(o, ln, i, nObs, Slice(ln, i * 16, (i + 1) * 16),
                  parseFloat(Slice(ln, i * 16, i * 16 + 14), 64))
    ELSE obsField(o, ln, i, nObs, Slice(ln, i * 16, (i + 1) * 16),
                  [err |-> NIL, v |-> Zero])

\* A variant of satEnd that forgets to go back to the intro state.
satEndNoReset(o, cb) ==
    IF o.prnIndex = o.count
    THEN callObsFunc([o EXCEPT !.prnIndex = 0], cb)
    ELSE Ret(o, NIL)

\* The end of parseV2Observations for a satellite whose observations are all
\* read: the next satellite, or the record emitted after the last one.
satEnd(o, cb) ==
    IF o.prnIndex = o.count
    THEN callObsFunc([o EXCEPT !.prnIndex = 0, !.lastSystem = 0], cb)
    ELSE Ret(o, NIL)

\* A variant of obsEnd that goes to the next satellite after every line.
obsEndOneLine(r, n, cb) ==
    IF r.err # NIL THEN r
    ELSE satEnd([r.or EXCEPT !.lastSystem = 32, !.obsIndex = 0,
                             !.prnIndex = (@ + 1) % 65536], cb)

\* parseV2Observations after the fields of the line are read; n is the
\* length of the universal catalog.
obsEnd(r, n, cb) ==
    IF r.err # NIL THEN r
    ELSE IF (r.or.obsIndex + 5) % 65536 >= n
    THEN satEnd([r.or EXCEPT !.lastSystem = 32, !.obsIndex = 0,
                             !.prnIndex = (@ + 1) % 65536], cb)
    ELSE Ret([r.or EXCEPT !.obsIndex = (@ + 5) % 65536], NIL)

\* parseV2Observations: an observation line, first or continuation, of the
\* current satellite.
parseV2Observations(o, ln, cb) ==
    IF o.prnIndex >= o.obsRec.Sat.len THEN Ret(o, PanicIndex)
    ELSE obsEnd(ObsLoop([o EXCEPT !.lastSystem =
                                      Ord(o.obsRec.Sat.arr[o.prnIndex + 1].PRN[1])],
                        ln, 0, CatalogLen(o, " ") - o.obsIndex),
                CatalogLen(o, " "), cb)

\* parseV2 after the intro line is parsed: flags 0, 1 and 6 go on to the
\* PRNs of the same line.
introEndV2(r, ln) ==
    IF r.err # NIL THEN r
    ELSE IF r.or.obsRec.EpochFlag \in {0, 1, 6} THEN parseV2PRNs(r.or, ln)
    ELSE r

\* parseV2: one framed line in data mode of a version-2 stream.  lastSystem
\* is the line-type state: 0 intro, 1 PRN continuation, otherwise observations.
parseV2(o, ln, cb) ==
    IF o.lastSystem = 0 THEN introEndV2(parseV2ObsIntro(o, ln, cb), ln)
    ELSE IF o.lastSystem < 2 THEN parseV2PRNs(o, ln)
    ELSE parseV2Observations(o, ln, cb)

(***************************************************************************)
(* RINEX 3 decoder.  Lines are not padded: every index is checked against   *)
(* the length of the line, and an index beyond it is a run-time panic.      *)
(***************************************************************************)
\* The end of parseV3Epoch for a dated line, the six fields parsed.
datedV3(o, year, month, day, hour, minute, second) ==
    IF year.err # NIL THEN Ret(o, year.err)
    ELSE IF month.err # NIL THEN Ret(o, month.err)
    ELSE IF day.err # NIL THEN Ret(o, day.err)
    ELSE IF hour.err # NIL THEN Ret(o, hour.err)
    ELSE IF minute.err # NIL THEN Ret(o, minute.err)
    ELSE IF second.err # NIL THEN Ret(o, second.err)
    ELSE Ret(SetTime(o, year.v, month.v, day.v, hour.v, minute.v, second.v), NIL)

\* parseV3Epoch: the date/time stamp of a '>' line.
parseV3Epoch(o, ln, flag) ==
    IF At(ln, 2) # " "
    THEN datedV3(o, parseUint(Slice(ln, 2, 6), 16), parseUint(Slice(ln, 7, 9), 8),
                 parseUint(Slice(ln, 10, 12), 8), parseUint(Slice(ln, 13, 15), 8),
                 parseUint(Slice(ln, 16, 18), 8), parseFloat(Slice(ln, 19, 30), 32))
    ELSE IF flag = "0" \/ flag = "1"
    THEN Ret(o, "RINEX 3 observation requires epoch")
    ELSE Ret(SetTime(o, 0, 0, 0, 0, 0, Zero), NIL)

\* The end of parseV3ObsIntro for flags 0, 1 and 6 on a line of 56 columns
\* or more: the receiver time offset and the capacity of the satellite list.
offsetV3(o, offset) ==
    IF offset.err # NIL THEN Ret(o, offset.err)
    ELSE Ret(EnsureSatCap([o EXCEPT !.obsRec.Offset = offset.v], o.count), NIL)

\* parseV3ObsIntro once the epoch is parsed: "Does it declare a special event?"
eventV3(ep, ln, flag, cb) ==
    IF ep.err # NIL THEN ep
    ELSE IF flag # "0" /\ flag # "1" /\ flag # "6"
    THEN callObsFunc([ep.or EXCEPT !.inHeader = ep.or.count > 0], cb)
    ELSE IF Len(ln) >= 56 THEN offsetV3(ep.or, parseFloat(Slice(ln, 41, 56), 64))
    ELSE Ret(EnsureSatCap(ep.or, ep.or.count), NIL)

\* parseV3ObsIntro once the count is parsed.
countV3(o, ln, flag, count, cb) ==
    IF count.err # NIL THEN Ret(o, count.err)
    ELSE eventV3(parseV3Epoch([o EXCEPT !.count = count.v], ln, flag), ln, flag, cb)

\* parseV3ObsIntro: a '>' line.  line[28] and line[32:35] are taken whatever
\* the length of the line.
parseV3ObsIntro(o, ln, cb) ==
    IF Len(ln) <= 28 THEN Ret(o, PanicIndex)
    ELSE IF Len(ln) < 35 THEN Ret(ResetRecord(o, At(ln, 28)), PanicSlice)
    ELSE countV3(ResetRecord(o, At(ln, 28)), ln, At(ln, 28),
                 parseUint(Slice(ln, 32, 35), 16), cb)

\* The loop of parseV3 over the observation types of the satellite's system;
\* it yields the observations read, or the error or panic that ended it.
\* The value is read when the line has 17+16i columns, line[18+16i] when it
\* has 18+16i and line[19+16i] when it has 19+16i.
RECURSIVE V3ObsLoop(_, _, _, _)
v3Field(obs, ln, i, n, v) ==
    IF v.err # NIL THEN [obs |-> obs, err |-> v.err]
    ELSE IF Len(ln) >= 18 + 16 * i /\ Len(ln) <= 18 + 16 * i
    THEN [obs |-> obs, err |-> PanicIndex]
    ELSE IF Len(ln) >= 19 + 16 * i /\ Len(ln) <= 19 + 16 * i
    THEN [obs |-> obs, err |-> PanicIndex]
    ELSE V3ObsLoop(Append(obs,
                     [Value |-> v.v,
                      LLI |-> IF Len(ln) >= 18 + 16 * i
                              THEN ByteSub(Ord(At(ln, 18 + 16 * i)), 48) ELSE 0,
                      SignalStrength |->
                              IF Len(ln) >= 19 + 16 * i
                              THEN ByteSub(Ord(At(ln, 19 + 16 * i)), 48) ELSE 0]),
                   ln, i + 1, n)
V3ObsLoop(obs, ln, i, n) ==
    IF i >= n THEN [obs |-> obs, err |-> NIL]
    ELSE IF Len(ln) >= 17 + 16 * i
    THEN v3Field(obs, ln, i, n, parseFloat(Slice(ln, 3 + 16 * i, 17 + 16 * i), 64))
    ELSE v3Field(obs, ln, i, n, [err |-> NIL, v |-> Zero])

\* The end of parseV3 for a satellite line: or.obsRec.Sat[idx] = svo, unless
\* the loop ended early.
satV3(o, ln, loop) ==
    IF loop.err # NIL THEN Ret(o, loop.err)
    ELSE Ret([o EXCEPT !.obsRec.Sat.arr[o.obsRec.Sat.len] =
                           [PRN |-> Slice(ln, 0, 3), Obs |-> loop.obs]], NIL)

\* A variant of parseV3 that reads a satellite of an undeclared system as one
\* without observations.
parseV3Lenient(o, ln, cb) ==
    IF Len(ln) = 0 THEN Ret(o, PanicIndex)
    ELSE IF At(ln, 0) = ">" THEN parseV3ObsIntro(o, ln, cb)
    ELSE IF o.obsRec.Sat.len + 1 > Len(o.obsRec.Sat.arr) THEN Ret(o, PanicSlice)
    ELSE IF Len(ln) < 3 THEN Ret([o EXCEPT !.obsRec.Sat.len = @ + 1], PanicSlice)
    ELSE satV3([o EXCEPT !.obsRec.Sat.len = @ + 1], ln,
               V3ObsLoop(<<>>, ln, 0, CatalogLen(o, At(ln, 0))))

\* parseV3: one line in data mode of a version-3 stream.
parseV3(o, ln, cb) ==
    IF Len(ln) = 0 THEN Ret(o, PanicIndex)
    ELSE IF At(ln, 0) = ">" THEN parseV3ObsIntro(o, ln, cb)
    ELSE IF At(ln, 0) \notin DOMAIN o.Observations THEN Ret(o, "Unexpected GNSS type")
    ELSE IF o.obsRec.Sat.len + 1 > Len(o.obsRec.Sat.arr) THEN Ret(o, PanicSlice)
    ELSE IF Len(ln) < 3 THEN Ret([o EXCEPT !.obsRec.Sat.len = @ + 1], PanicSlice)
    ELSE satV3([o EXCEPT !.obsRec.Sat.len = @ + 1], ln,
               V3ObsLoop(<<>>, ln, 0, CatalogLen(o, At(ln, 0))))

(***************************************************************************)
(* The input lines of the model, as the scanner delivers them (no trailing  *)
(* padding).  Header lines put their label in columns 61-80.                *)
(***************************************************************************)
HeaderLine(value, label) == value \o Spaces(60 - Len(value)) \o label

\* "     2.11           OBSERVATION DATA" and its likes: version and file type.
VersionLine(major, type) ==
    HeaderLine(Spaces(5) \o <<major, ".", "1", "1">> \o Spaces(11) \o <<type>>,
               LabelVersion)

hV2 == VersionLine("2", "O")
hV3 == VersionLine("3", "O")
hV9 == VersionLine("9", "O")
\* Version 2 of a navigation file.
hV2N == VersionLine("2", "N")
hEnd == HeaderLine(<<>>, LabelEndOfHeader)
hTime == HeaderLine(<<" ", " ", "2", "0", "0", "5">>, LabelTimeOfFirstObs)
hTypes == HeaderLine(Spaces(5) \o <<"1">> \o Spaces(4) \o <<"L", "1">>, LabelTypesOfObserv)
hSys == HeaderLine(<<"G", " ", " ", " ", " ", "1", " ", "C", "1", "C">>, LabelSysObsTypes)
\* A declaration of two codes that lists one, and its continuation line.
hTypes2a == HeaderLine(Spaces(5) \o <<"2">> \o Spaces(4) \o <<"L", "1">>, LabelTypesOfObserv)
hTypes2b == HeaderLine(Spaces(10) \o <<"L", "2">>, LabelTypesOfObserv)
\* "     6    L1    L2    C1    P1    P2    D1": six codes on one line.
hTypes6 ==
    HeaderLine(Spaces(5) \o <<"6">> \o Spaces(4) \o <<"L", "1">> \o Spaces(4) \o <<"L", "2">>
               \o Spaces(4) \o <<"C", "1">> \o Spaces(4) \o <<"P", "1">>
               \o Spaces(4) \o <<"P", "2">> \o Spaces(4) \o <<"D", "1">>,
               LabelTypesOfObserv)
\* "R   14 C1C L1C ..." with 13 codes, and the continuation line with the 14th.
SysCodes ==
    <<"C", "1", "C", " ", "L", "1", "C", " ", "D", "1", "C", " ", "S", "1", "C", " ",
      "C", "1", "W", " ", "S", "1", "W", " ", "C", "2", "W", " ", "L", "2", "W", " ",
      "D", "2", "W", " ", "S", "2", "W", " ", "C", "2", "L", " ", "L", "2", "L", " ",
      "D", "2", "L">>
hSysR14 == HeaderLine(<<"R", " ", " ", " ", "1", "4", " ">> \o SysCodes, LabelSysObsTypes)
hSysCont == HeaderLine(Spaces(7) \o <<"S", "2", "L">>, LabelSysObsTypes)
\* A comment whose label is not padded to column 80.
hComment == HeaderLine(<<"X">>, <<"C", "O", "M", "M", "E", "N", "T">>)
tooLong == [i \in 1..81 |-> "X"]

\* Version 2: " yy  3 24 13 10 36.0000000" or 26 blanks, then the flag in
\* column 29, the count in columns 30-32, the PRNs and the clock offset.
DateV2(yy) ==
    <<" ">> \o yy \o
    <<" ", " ", "3", " ", "2", "4", " ", "1", "3", " ", "1", "0",
      " ", "3", "6", ".", "0", "0", "0", "0", "0", "0", "0">>
IntroV2(date, flag, n, prns) == date \o <<" ", " ", flag, " ", " ", n>> \o prns
WithOffset(ln) == ln \o Spaces(77 - Len(ln)) \o <<"-", ".", "5">>

i2Epoch05 == WithOffset(IntroV2(DateV2(<<"0", "5">>), "0", "2",
                                <<"G", "1", "2", " ", "0", "9">>))
i2Epoch04 == IntroV2(DateV2(<<"0", "4">>), "1", "1", <<"R", "2", "1">>)
i2Event4 == IntroV2(DateV2(<<"0", "5">>), "4", "2", <<>>)
i2Event2 == IntroV2(DateV2(<<"0", "6">>), "2", "0", <<>>)
i2Event3Blank == IntroV2(Spaces(26), "3", "1", <<>>)
i2Slip6Blank == IntroV2(Spaces(26), "6", "1", <<"G", "1", "2">>)
i2Epoch0Blank == IntroV2(Spaces(26), "0", "1", <<"G", "1", "2">>)
\* An epoch that declares no satellite.
i2Epoch0None == IntroV2(DateV2(<<"0", "5">>), "0", "0", <<>>)
\* An intro line whose flag column holds '7'.
i2Flag7 == IntroV2(DateV2(<<"0", "5">>), "7", "0", <<>>)
\* An epoch of 13 satellites: 12 identifiers on the intro line, one of them
\* written "G 9", and the 13th on the continuation line.
Prns12 ==
    <<"G", "0", "1", "G", "0", "2", "G", "0", "3", "G", "0", "4", "G", "0", "5",
      "G", "0", "6", "G", "0", "7", "G", "0", "8", "G", " ", "9", "G", "1", "0",
      "G", "1", "1", "G", "1", "2">>
i2Epoch13 == DateV2(<<"0", "5">>) \o <<" ", " ", "0", " ", "1", "3">> \o Prns12
p2Cont == Spaces(32) \o <<"G", "1", "3">>
o2Line == Spaces(5) \o <<"1", "2", "3", "4", "5", ".", "6", "7", "8", " ", "7">>
\* An observation line of five fields, d.000 with signal strength d.
o2Full ==
    LET f(d) == Spaces(9) \o <<d, ".", "0", "0", "0", " ", d>>
    IN  f("1") \o f("2") \o f("3") \o f("4") \o f("5")
\* An observation line whose first field is a number without a decimal point.
o2NoPoint == Spaces(9) \o <<"1", "2", "3", "4", "5">>

\* Version 3: "> 2019 01 10 00 00" and the seconds, or blanks; the decoder
\* reads the flag in column 29 and the count in columns 33-35.
DateV3 ==
    <<">", " ", "2", "0", "1", "9", " ", "0", "1", " ", "1", "0", " ", "0", "0",
      " ", "0", "0", " ", " ", "0", ".", "0", "0", "0", "0", "0", "0">>
BlankV3 == <<">">> \o Spaces(27)
IntroV3(date, flag, n) == date \o <<flag, " ", " ", " ", " ", " ", n>>

i3Epoch == IntroV3(DateV3, "0", "1")
i3Event4 == IntroV3(DateV3, "4", "1")
i3Event3Blank == IntroV3(BlankV3, "3", "2")
i3Epoch0Blank == IntroV3(BlankV3, "0", "1")
i3Epoch0Short == BlankV3 \o <<"0">>
\* An epoch line padded with blanks to 56 columns: the offset columns are
\* there and blank.
i3EpochPad == i3Epoch \o Spaces(56 - Len(i3Epoch))
s3Line == <<"G", "0", "1">> \o Spaces(5) \o
          <<"1", "2", "3", "4", "5", ".", "6", "7", "8">>

\* Satellite lines of 18 columns and of 81 columns.
s3Line18 == s3Line \o <<" ">>
s3Long == s3Line \o Spaces(64)
\* A satellite line whose only observation field is blank.
s3Blank == <<"G", "0", "1">> \o Spaces(17)

HeaderLines == {hV2, hV3, hV9, hV2N, hEnd, hTime, hTypes, hTypes2a, hTypes2b, hSys, hSysR14,
                hSysCont, hComment, tooLong}
V2Lines == {i2Epoch05, i2Epoch04, i2Event4, i2Event2, i2Event3Blank, i2Slip6Blank,
            i2Epoch0Blank, i2Flag7, i2Epoch13, p2Cont, o2Line, o2NoPoint}
V3Lines == {i3Epoch, i3Event4, i3Event3Blank, i3Epoch0Blank, i3Epoch0Short,
            i3EpochPad, s3Blank, s3Line,
            s3Line18, s3Long}
Lines == HeaderLines \cup V2Lines \cup V3Lines

\* What a callback may return.
CallbackReturns == {NIL, ErrStop}
\* Whether the caller set HeaderFunc and ObsFunc.
CallbackSettings == BOOLEAN

(***************************************************************************)
(* Parse.                                                                   *)
(***************************************************************************)
\* The line framer: the line space-padded to 80 columns.
LineWidth == 80
Frame(raw) == raw \o Spaces(LineWidth - Len(raw))

\* A variant of Outcome that reads on after a callback asked to stop.
OutcomeIgnoreStop(e) ==
    IF e = NIL \/ e = ErrStop THEN "running"
    ELSE IF e \in Panics THEN "panic" ELSE "error"

\* How the loop of Parse goes on after a handler returned e.
Outcome(e) ==
    IF e = NIL THEN "running" ELSE IF e \in Panics THEN "panic" ELSE "error"

\* Whether the line about to be read will be decoded as an epoch-intro line.
IsIntro(o, raw) ==
    /\ ~o.inHeader
    /\ \/ o.version = 2 /\ o.lastSystem = 0 /\ Len(raw) <= LineWidth
       \/ o.version = 3 /\ Len(raw) > 0 /\ raw[1] = ">"

\* rinex.ObsReader{HeaderFunc: ..., ObsFunc: ...}: the other fields are zero.
NewReader(hf, ofn) ==
    [HeaderFunc |-> hf, ObsFunc |-> ofn, Observations |-> <<>>,
     version |-> 0, year |-> 0, count |-> 0, prnIndex |-> 0,
     obsIndex |-> 0, inHeader |-> FALSE, lastSystem |-> 0,
     obsRec |-> ZeroObservationRecord]

\* The first statements of Parse, on the reader o.
Begun(o) ==
    [o EXCEPT !.inHeader = TRUE, !.version = 0, !.lastSystem = 0,
              !.Observations = <<>>]

\* One reader, no concurrent Parse call.
InitAlone ==
    /\ \E hf \in CallbackSettings, ofn \in CallbackSettings : or = NewReader(hf, ofn)
    /\ result = "idle"
    /\ err = NIL
    /\ line = <<>>
    /\ route = "none"
    /\ calls = <<>>
    /\ nread = 0
    /\ hdrLeft = 0
    /\ intro = [flag |-> "none", blank |-> FALSE, open |-> FALSE]
    /\ prevTime = TimeOf(ZeroObservationRecord)

Init == InitAlone /\ peers = <<>> /\ pool = <<>>

\* The first statements of Parse.
ParseBegin ==
    /\ result = "idle"
    /\ or' = Begun(or)
    /\ result' = "running"
    /\ UNCHANGED <<err, line, route, calls, peers, nread, hdrLeft, intro, prevTime, pool>>

\* The bookkeeping of one iteration: r is what the handler handed back.
Finish(raw, rt, r) ==
    LET wasIntro == IsIntro(or, raw) /\ rt # "framer"
        went == r.err \in {NIL, ErrStop}
        emitted == r.calls # <<>> /\ r.calls[1].fn = "ObsFunc"
    IN  /\ or' = r.or
        /\ result' = Outcome(r.err)
        /\ err' = r.err
        /\ line' = raw
        /\ route' = rt
        /\ calls' = r.calls
        /\ nread' = nread + 1
        /\ hdrLeft' = IF wasIntro /\ went /\ r.or.obsRec.EpochFlag \in 2..5
                      THEN r.or.count
                      ELSE IF hdrLeft > 0 THEN hdrLeft - 1 ELSE 0
        /\ intro' = IF wasIntro
                    THEN [flag |-> IF Len(raw) > 28 THEN raw[29] ELSE " ",
                          blank |-> Len(raw) < 3 \/ raw[3] = " ",
                          open |-> went /\ r.or.obsRec.EpochFlag \in {0, 1, 6}]
                    ELSE [intro EXCEPT !.open = @ /\ ~emitted]
        /\ prevTime' = IF wasIntro THEN TimeOf(or.obsRec) ELSE prevTime
        /\ peers' = peers
        /\ pool' = pool

Reading == result = "running" /\ nread < MaxLines

\* "Oversized input line": the framer rejects a line of more than 80 bytes.
ReadOversized ==
    /\ Reading
    /\ or.inHeader \/ or.version = 2
    /\ \E raw \in Lines :
          /\ Len(raw) > LineWidth
          /\ Finish(raw, "framer", Ret(or, "Oversized input line"))

ReadHeader ==
    /\ Reading
    /\ or.inHeader
    /\ \E raw \in Lines, cb \in CallbackReturns :
          /\ Len(raw) <= LineWidth
          /\ Finish(raw, "handleHeader", handleHeader(or, Frame(raw), cb))

ReadV2 ==
    /\ Reading
    /\ ~or.inHeader /\ or.version = 2
    /\ \E raw \in Lines, cb \in CallbackReturns :
          /\ Len(raw) <= LineWidth
          /\ Finish(raw, "parseV2", parseV2(or, Frame(raw), cb))

\* A variant of ReadV3 that frames the line as header mode does.
ReadV3Framed ==
    /\ Reading
    /\ ~or.inHeader /\ or.version = 3
    /\ \E raw \in Lines, cb \in CallbackReturns :
          IF Len(raw) > LineWidth
          THEN Finish(raw, "framer", Ret(or, "Oversized input line"))
          ELSE Finish(raw, "parseV3", parseV3(or, Frame(raw), cb))

ReadV3 ==
    /\ Reading
    /\ ~or.inHeader /\ or.version = 3
    /\ \E raw \in Lines, cb \in CallbackReturns :
          Finish(raw, "parseV3", parseV3(or, raw, cb))

\* panic("RINEX header did not declare its version")
ReadNoVersion ==
    /\ Reading
    /\ ~or.inHeader /\ or.version # 2 /\ or.version # 3
    /\ \E raw \in Lines : Finish(raw, "none", Ret(or, PanicVersion))

\* A variant of EndOfInput that refuses a stream ending inside an epoch.
EndOfInputStrict ==
    /\ result = "running"
    /\ result' = IF ~or.inHeader /\ or.lastSystem # 0 THEN "error" ELSE "ok"
    /\ err' = IF ~or.inHeader /\ or.lastSystem # 0 THEN "unexpected EOF" ELSE err
    /\ route' = "eof"
    /\ calls' = <<>>
    /\ UNCHANGED <<or, line, peers, nread, hdrLeft, intro, prevTime, pool>>

\* The scanner reports the end of the input: Parse returns s.Err(), nil.
EndOfInput ==
    /\ result = "running"
    /\ result' = "ok"
    /\ route' = "eof"
    /\ calls' = <<>>
    /\ UNCHANGED <<or, err, line, peers, nread, hdrLeft, intro, prevTime, pool>>

Next ==
    \/ ParseBegin
    \/ ReadOversized
    \/ ReadHeader
    \/ ReadV2
    \/ ReadV3
    \/ ReadNoVersion
    \/ EndOfInput

Spec == Init /\ [][Next]_vars

(***************************************************************************)
(* Concurrent readers.  Each goroutine of readFiles builds its own          *)
(* ObsReader and calls Parse on its own file; the package keeps one         *)
(* variable, specialHeaders, which no handler writes.                       *)
(***************************************************************************)
\* One iteration of the loop of Parse on the reader o: the line framed and
\* handed to the handler the mode and the version select.
ParseLine(o, raw, cb) ==
    IF (o.inHeader \/ o.version = 2) /\ Len(raw) > LineWidth
    THEN Ret(o, "Oversized input line")
    ELSE IF o.inHeader THEN handleHeader(o, Frame(raw), cb)
    ELSE IF o.version = 2 THEN parseV2(o, Frame(raw), cb)
    ELSE IF o.version = 3 THEN parseV3(o, raw, cb)
    ELSE Ret(o, PanicVersion)

\* The files the goroutines read, line by line.
Files ==
    {<<hV2, hTypes, hEnd, i2Epoch04, o2Line>>,
     <<hV2, hTypes6, hEnd, i2Epoch05, o2Full, o2Line, o2Full, o2NoPoint>>,
     <<hV2, hTime, hTypes2a, hEnd, i2Event4, hComment>>,
     <<hV3, hSys, hEnd, i3Epoch, s3Line>>,
     <<hV3, hSysR14, hSysCont, hEnd, i3Event4, hTypes>>,
     <<hV2, hTypes, hEnd, i2Epoch0None, i2Epoch04>>}
Instances == {1, 2}

\* A goroutine before its Parse call: its reader, the lines to read (todo),
\* the lines read with what the callback returned (done), the callback
\* invocations so far, and the number of Parse calls made on its reader.
NewPeer ==
    [or |-> NewReader(TRUE, TRUE), result |-> "idle", err |-> NIL,
     todo |-> <<>>, done |-> <<>>, calls |-> <<>>, parses |-> 0]

\* A variant of ReaderOf for a catalog kept in a package variable, which is
\* the catalog of the first reader.
ReaderSharedCatalog(ps, i) == [ps[i].or EXCEPT !.Observations = ps[1].or.Observations]

\* The reader the Parse call of goroutine i works on: its own.
ReaderOf(ps, i) == ps[i].or

\* The goroutine p after an iteration of the loop handed back r.
PeerAfter(p, r, cb) ==
    [or |-> r.or, result |-> Outcome(r.err), err |-> r.err,
     todo |-> Tail(p.todo), done |-> Append(p.done, <<Head(p.todo), cb>>),
     calls |-> p.calls \o r.calls, parses |-> p.parses]

PairInit ==
    /\ InitAlone /\ or.HeaderFunc /\ or.ObsFunc
    /\ peers = [i \in Instances |-> NewPeer]
    /\ pool = <<>>

PeerBegin ==
    /\ \E i \in DOMAIN peers, f \in Files :
          /\ peers[i].result = "idle"
          /\ peers' = [peers EXCEPT ![i] = [@ EXCEPT !.or = Begun(ReaderOf(peers, i)),
                                                    !.result = "running",
                                                    !.todo = f,
                                                    !.parses = 1]]
    /\ UNCHANGED <<or, result, err, line, route, calls, nread, hdrLeft, intro, prevTime, pool>>

PeerRead ==
    /\ \E i \in DOMAIN peers, cb \in CallbackReturns :
          /\ peers[i].result = "running" /\ peers[i].todo # <<>>
          /\ peers' = [peers EXCEPT ![i] =
                          PeerAfter(@, ParseLine(ReaderOf(peers, i), Head(@.todo), cb), cb)]
    /\ UNCHANGED <<or, result, err, line, route, calls, nread, hdrLeft, intro, prevTime, pool>>

PeerEnd ==
    /\ \E i \in DOMAIN peers :
          /\ peers[i].result = "running" /\ peers[i].todo = <<>>
          /\ peers' = [peers EXCEPT ![i].result = "ok"]
    /\ UNCHANGED <<or, result, err, line, route, calls, nread, hdrLeft, intro, prevTime, pool>>

PairNext ==
    \/ PeerBegin
    \/ PeerRead
    \/ PeerEnd

PairSpec == PairInit /\ [][PairNext]_vars

(***************************************************************************)
(* One reader used for several Parse calls in turn, each on a file of its   *)
(* own: Parse is called again on the reader as the call before left it.     *)
(***************************************************************************)
MaxParses == 2

AgainInit ==
    /\ InitAlone /\ or.HeaderFunc /\ or.ObsFunc
    /\ peers = <<NewPeer>>
    /\ pool = <<>>

\* Parse is called again after it returned.
PeerAgain ==
    /\ \E i \in DOMAIN peers, f \in Files :
          /\ peers[i].result \in {"ok", "error"}
          /\ peers[i].parses < MaxParses
          /\ peers' = [peers EXCEPT ![i] = [@ EXCEPT !.or = Begun(ReaderOf(peers, i)),
                                                    !.result = "running",
                                                    !.err = NIL,
                                                    !.todo = f,
                                                    !.done = <<>>,
                                                    !.calls = <<>>,
                                                    !.parses = @ + 1]]
    /\ UNCHANGED <<or, result, err, line, route, calls, nread, hdrLeft, intro, prevTime, pool>>

AgainNext ==
    \/ PeerBegin
    \/ PeerRead
    \/ PeerEnd
    \/ PeerAgain

AgainSpec == AgainInit /\ [][AgainNext]_vars

(***************************************************************************)
(* The countobs command: main sends the file names of its arguments on the  *)
(* channel filenames (capacity 8 + j), j goroutines run readFiles and send  *)
(* one result per parsed file on the channel results (capacity 1 + j), one  *)
(* goroutine runs reportResults.  Files are named 1, 2, ... in the order of *)
(* the arguments.  A panic in a goroutine ends the process.                 *)
(***************************************************************************)
MaxJobs == 2
MaxFiles == 10

\* What os.Open and Parse make of a file: the file cannot be opened, Parse
\* returns (nil or an error), or Parse panics.
FileOutcomes == {"unopened", "parsed", "panic"}

\* main after the channels are made and the goroutines started.
PoolInit ==
    /\ InitAlone /\ ~or.HeaderFunc /\ or.ObsFunc
    /\ peers = <<>>
    /\ \E j \in 1..MaxJobs, n \in 0..MaxFiles :
          pool = [jobs |-> j, args |-> n, sent |-> 0,
                  filenames |-> <<>>, filenamesClosed |-> FALSE,
                  results |-> <<>>, resultsClosed |-> FALSE,
                  main |-> "send",
                  readFiles |-> [w \in 1..j |-> [at |-> "receive", res |-> 0]],
                  reportResults |-> "receive",
                  owed |-> {}]

PoolRunning == pool.main \notin {"exit", "panic"}

\* filenames <- filename
MainSend ==
    /\ PoolRunning /\ pool.main = "send" /\ pool.sent < pool.args
    /\ Len(pool.filenames) < 8 + pool.jobs
    /\ pool' = [pool EXCEPT !.filenames = Append(@, pool.sent + 1), !.sent = @ + 1]
    /\ UNCHANGED <<or, result, err, line, route, calls, peers, nread, hdrLeft, intro, prevTime>>

\* close(filenames), then wg2.Wait()
MainClose ==
    /\ PoolRunning /\ pool.main = "send" /\ pool.sent = pool.args
    /\ pool' = [pool EXCEPT !.filenamesClosed = TRUE, !.main = "wg2.Wait"]
    /\ UNCHANGED <<or, result, err, line, route, calls, peers, nread, hdrLeft, intro, prevTime>>

\* wg2.Wait() returns when every readFiles has returned; close(results),
\* then wg1.Wait()
MainCloseResults ==
    /\ PoolRunning /\ pool.main = "wg2.Wait"
    /\ \A w \in DOMAIN pool.readFiles : pool.readFiles[w].at = "returned"
    /\ pool' = [pool EXCEPT !.resultsClosed = TRUE, !.main = "wg1.Wait"]
    /\ UNCHANGED <<or, result, err, line, route, calls, peers, nread, hdrLeft, intro, prevTime>>

\* wg1.Wait() returns when reportResults has returned, and main returns.
MainExit ==
    /\ PoolRunning /\ pool.main = "wg1.Wait"
    /\ pool.reportResults = "returned"
    /\ pool' = [pool EXCEPT !.main = "exit"]
    /\ UNCHANGED <<or, result, err, line, route, calls, peers, nread, hdrLeft, intro, prevTime>>

\* readFiles receives a file name, opens the file and parses it.
WorkerTake ==
    /\ PoolRunning
    /\ \E w \in DOMAIN pool.readFiles, outcome \in FileOutcomes :
          /\ pool.readFiles[w].at = "receive"
          /\ pool.filenames # <<>>
          /\ pool' =
                IF outcome = "unopened"
                THEN [pool EXCEPT !.filenames = Tail(@)]
                ELSE IF outcome = "parsed"
                THEN [pool EXCEPT !.filenames = Tail(@),
                                  !.readFiles[w] = [at |-> "send", res |-> Head(pool.filenames)],
                                  !.owed = @ \cup {Head(pool.filenames)}]
                ELSE [pool EXCEPT !.filenames = Tail(@), !.main = "panic"]
    /\ UNCHANGED <<or, result, err, line, route, calls, peers, nread, hdrLeft, intro, prevTime>>

\* results <- res
WorkerSend ==
    /\ PoolRunning
    /\ \E w \in DOMAIN pool.readFiles :
          /\ pool.readFiles[w].at = "send"
          /\ Len(pool.results) < 1 + pool.jobs
          /\ pool' = [pool EXCEPT !.results = Append(@, pool.readFiles[w].res),
                                  !.readFiles[w] = [at |-> "receive", res |-> 0]]
    /\ UNCHANGED <<or, result, err, line, route, calls, peers, nread, hdrLeft, intro, prevTime>>

\* readFiles returns when filenames is closed and drained.
WorkerReturn ==
    /\ PoolRunning
    /\ \E w \in DOMAIN pool.readFiles :
          /\ pool.readFiles[w].at = "receive"
          /\ pool.filenames = <<>> /\ pool.filenamesClosed
          /\ pool' = [pool EXCEPT !.readFiles[w].at = "returned"]
    /\ UNCHANGED <<or, result, err, line, route, calls, peers, nread, hdrLeft, intro, prevTime>>

\* reportResults receives a result and prints it.
ReportTake ==
    /\ PoolRunning /\ pool.reportResults = "receive"
    /\ pool.results # <<>>
    /\ pool' = [pool EXCEPT !.results = Tail(@), !.owed = @ \ {Head(pool.results)}]
    /\ UNCHANGED <<or, result, err, line, route, calls, peers, nread, hdrLeft, intro, prevTime>>

\* reportResults returns when results is closed and drained.
ReportReturn ==
    /\ PoolRunning /\ pool.reportResults = "receive"
    /\ pool.results = <<>> /\ pool.resultsClosed
    /\ pool' = [pool EXCEPT !.reportResults = "returned"]
    /\ UNCHANGED <<or, result, err, line, route, calls, peers, nread, hdrLeft, intro, prevTime>>

PoolNext ==
    \/ MainSend
    \/ MainClose
    \/ MainCloseResults
    \/ MainExit
    \/ WorkerTake
    \/ WorkerSend
    \/ WorkerReturn
    \/ ReportTake
    \/ ReportReturn

PoolSpec == PoolInit /\ [][PoolNext]_vars

(***************************************************************************)
(* Vocabulary of the claims.                                                *)
(***************************************************************************)
\* The step read a line.
ReadStep == nread' = nread + 1
\* A handler ran to its end: it returned nil or what a callback returned.
Went(e) == e \in {NIL, ErrStop}
\* The callback invocations of the latest line are one ObsFunc call.
OneObsCall(c) == Len(c) = 1 /\ c[1].fn = "ObsFunc"
ZeroTime == TimeOf(ZeroObservationRecord)
\* The version-2 decoder is about to read the last observation line of the
\* last declared satellite.
LastObsLine(o) ==
    /\ o.lastSystem >= 2
    /\ o.prnIndex + 1 = o.count
    /\ o.obsIndex + 5 >= CatalogLen(o, " ")

(***************************************************************************)
(* C1: in a version-3 stream, once the N satellite lines an intro line     *)
(* with flag 0, 1 or 6 declared have been consumed, the observation         *)
(* callback has been invoked, once, with the record of N satellites.        *)
(***************************************************************************)
C1_V3RecordEmitted ==
    (/\ or.ObsFunc /\ or.version = 3 /\ route = "parseV3" /\ Went(err)
     /\ line # <<>> /\ line[1] # ">"
     /\ intro.flag \in {"0", "1", "6"}
     /\ or.obsRec.Sat.len = or.count)
    => (OneObsCall(calls) /\ Len(calls[1].rec.Sat) = or.count)

(***************************************************************************)
(* C2: an intro line with flag 2-5 and count N invokes the observation      *)
(* callback once with an empty satellite list; the next N lines go to the   *)
(* header dispatcher, and after them (at once when N = 0) the parser is in  *)
(* data mode.                                                               *)
(***************************************************************************)
C2_EventBlockRouted ==
    [][ReadStep =>
          /\ (/\ IsIntro(or, line') /\ route' # "framer" /\ Went(err')
              /\ intro'.flag \in {"2", "3", "4", "5"})
             => /\ or.ObsFunc => (OneObsCall(calls') /\ calls'[1].rec.Sat = <<>>)
                /\ hdrLeft' = 0 => ~or'.inHeader
          /\ hdrLeft > 0 => route' \in {"handleHeader", "framer"}
          /\ (hdrLeft = 1 /\ route' = "handleHeader" /\ Went(err')) => ~or'.inHeader
       ]_vars

(***************************************************************************)
(* C3: in a version-2 stream the record of an intro line with flag 0, 1 or  *)
(* 6 is handed to the observation callback exactly when the last            *)
(* observation line of the last declared satellite is read, once, with the  *)
(* declared satellites; no other intro line is read while a record is       *)
(* outstanding (so records leave in source order), and after the emission   *)
(* the decoder is in the intro state.                                       *)
(***************************************************************************)
C3_V2RecordEmittedOnce ==
    [][(ReadStep /\ route' = "parseV2" /\ or.ObsFunc) =>
          /\ (LastObsLine(or) /\ Went(err'))
             => /\ OneObsCall(calls')
                /\ calls'[1].rec.EpochFlag = Ord(intro.flag) - 48
                /\ calls'[1].rec.EpochFlag \in {0, 1, 6}
                /\ Len(calls'[1].rec.Sat) = or.count
                /\ or'.lastSystem = 0
                /\ intro.open /\ ~intro'.open
          /\ (calls' # <<>> /\ calls'[1].rec.EpochFlag \in {0, 1, 6})
             => LastObsLine(or)
          /\ or.lastSystem = 0 => ~intro.open
       ]_vars

C3_Witness ==
    /\ route = "parseV2" /\ result = "running" /\ OneObsCall(calls)
    /\ Len(calls[1].rec.Sat) = 2 /\ calls[1].rec.EpochFlag = 0
    /\ or.lastSystem = 0

(***************************************************************************)
(* C4: a line handled in header mode is delivered to the header callback,   *)
(* once, as (label, value) with value the columns 1-60 and label the        *)
(* columns 61-80 of the line padded to 80 columns, unless its special       *)
(* handler failed, and then it is not delivered.                            *)
(***************************************************************************)
C4_HeaderLineDelivered ==
    (route = "handleHeader" /\ or.HeaderFunc) =>
        IF Went(err)
        THEN calls = <<[fn |-> "HeaderFunc",
                        label |-> SubSeq(line \o Spaces(LineWidth - Len(line)), 61, 80),
                        value |-> SubSeq(line \o Spaces(LineWidth - Len(line)), 1, 60),
                        ret |-> err]>>
        ELSE calls = <<>>

\* A short comment line of an embedded header block, delivered padded.
C4_Witness ==
    /\ route = "handleHeader" /\ or.HeaderFunc /\ result = "running"
    /\ intro.flag \in {"2", "3", "4", "5"}
    /\ line = hComment /\ Len(line) < LineWidth
    /\ Len(calls) = 1 /\ calls[1].label = LabelComment

(***************************************************************************)
(* C5: when a callback returns a non-nil value, Parse returns exactly that  *)
(* value and nothing happens afterwards: no line is read, no callback is    *)
(* invoked.                                                                 *)
(***************************************************************************)
C5_CallbackStopIsFinal ==
    [][/\ ~(calls # <<>> /\ calls[1].ret # NIL)
       /\ (calls' # <<>> /\ calls'[1].ret # NIL)
          => (result' = "error" /\ err' = calls'[1].ret)
      ]_vars

C5_Witness ==
    /\ result = "error" /\ err = ErrStop
    /\ OneObsCall(calls) /\ calls[1].ret = ErrStop

(***************************************************************************)
(* C6: a parse failure is fatal at once: Parse returns the error of the     *)
(* line that raised it, no callback is invoked for that line (neither the   *)
(* header callback after a failed special handler nor the observation       *)
(* callback with the unfinished record), and nothing happens afterwards.    *)
(***************************************************************************)
C6_ParseFailureIsFinal ==
    [][/\ result # "error"
       /\ (ReadStep /\ ~Went(err') /\ err' \notin Panics)
          => (result' = "error" /\ calls' = <<>>)
      ]_vars

\* A failed special handler in header mode, and a failed field in an epoch.
C6_Witness ==
    /\ result = "error" /\ ~Went(err) /\ calls = <<>>
    /\ route = "handleHeader" /\ line = hV9 /\ or.HeaderFunc

(***************************************************************************)
(* C7: no input makes Parse abort abnormally.                               *)
(***************************************************************************)
C7_NoPanic == result # "panic"

(***************************************************************************)
(* C8, as claimed: the record emitted for an intro line with a blank date   *)
(* and a flag other than '0' or '1' carries the timestamp fields of the     *)
(* preceding epoch.                                                         *)
(***************************************************************************)
C8_BlankDateInherits ==
    (calls # <<>> /\ calls[1].fn = "ObsFunc" /\ intro.blank /\ intro.flag \notin {"0", "1"})
    => TimeOf(calls[1].rec) = prevTime

(***************************************************************************)
(* C8, amended: that record carries zero in every timestamp field (year,    *)
(* month, day, hour, minute, second), whatever the preceding epoch was.     *)
(***************************************************************************)
C8_BlankDateIsZero ==
    (calls # <<>> /\ calls[1].fn = "ObsFunc" /\ intro.blank /\ intro.flag \notin {"0", "1"})
    => TimeOf(calls[1].rec) = ZeroTime

C8_Witness ==
    /\ OneObsCall(calls) /\ intro.blank /\ intro.flag \notin {"0", "1"}
    /\ prevTime # ZeroTime
    /\ TimeOf(calls[1].rec) = ZeroTime

(***************************************************************************)
(* C9: an intro line with a blank date and flag '0' or '1' makes Parse      *)
(* return an error; no record is emitted and the carried year is kept.      *)
(***************************************************************************)
C9_BlankDateRequired ==
    [][(/\ ReadStep /\ IsIntro(or, line') /\ route' # "framer"
        /\ intro'.blank /\ intro'.flag \in {"0", "1"})
       => (result' = "error" /\ calls' = <<>> /\ or'.year = or.year)
      ]_vars

(***************************************************************************)
(* C10: version-2 year continuity.  For a carried four-digit year Y and an  *)
(* observed two-digit year y the carried year, and the year of the epoch,   *)
(* becomes 100*floor(Y/100) + y when y >= Y mod 100, and                    *)
(* 100*floor(Y/100) + 100 + y when y < Y mod 100.                           *)
(***************************************************************************)
ObservedYear(raw) == DecValue(TrimSpace(SubSeq(raw, 2, 3)))

C10_YearContinuity ==
    [][(/\ ReadStep /\ route' = "parseV2" /\ or.lastSystem = 0
        /\ ~intro'.blank /\ Went(err') /\ or.year <= 9999)
       => /\ or'.year =
                IF ObservedYear(line') >= or.year % 100
                THEN 100 * (or.year \div 100) + ObservedYear(line')
                ELSE 100 * (or.year \div 100) + 100 + ObservedYear(line')
          /\ or'.obsRec.Year = or'.year
      ]_vars

\* Carried 2005, observed 04: the year is 2104.
C10_Witness ==
    /\ route = "parseV2" /\ result = "running" /\ line = i2Epoch04
    /\ or.year = 2104 /\ or.obsRec.Year = 2104

(***************************************************************************)
(* What a declaration line of the header says, read from the source line:  *)
(* the label, the count field and the codes it lists.                       *)
(***************************************************************************)
LabelOfLine(raw) == SubSeq(raw \o Spaces(LineWidth - Len(raw)), 61, 80)
\* The non-blank entries of a sequence of codes, in their order.
Listed(codes) == SelectSeq(codes, LAMBDA c : c # <<" ", " ", " ">>)

\* '# / TYPES OF OBSERV': the count in columns 1-6, nine slots of six columns
\* with the two-character code in their last two columns.
IsTypesLine(raw) == Len(raw) <= LineWidth /\ LabelOfLine(raw) = LabelTypesOfObserv
IsTypesFirst(raw) == IsTypesLine(raw) /\ SubSeq(raw, 1, 6) # Spaces(6)
TypesDeclared(raw) == DecValue(TrimSpace(SubSeq(raw, 1, 6)))
TypesListed(raw) ==
    Listed([i \in 1..9 |-> <<raw[5 + 6 * i], raw[6 + 6 * i], " ">>])

\* 'SYS / # / OBS TYPES': the system in column 1, the count in columns 4-6,
\* thirteen slots of four columns with the code in their last three columns.
IsSysLine(raw) == Len(raw) <= LineWidth /\ LabelOfLine(raw) = LabelSysObsTypes
IsSysFirst(raw) == IsSysLine(raw) /\ raw[1] # " "
SysDeclared(raw) == DecValue(TrimSpace(SubSeq(raw, 4, 6)))
SysListed(raw) ==
    Listed([i \in 1..13 |-> <<raw[4 + 4 * i], raw[5 + 4 * i], raw[6 + 4 * i]>>])

(***************************************************************************)
(* C11: in a version-2 header, when the '# / TYPES OF OBSERV' lines of a    *)
(* declaration (one line, or a first line and its continuation line) have   *)
(* listed the declared number of codes, the universal catalog holds exactly *)
(* those codes in their order (the declaration being the first of the       *)
(* stream).                                                                 *)
(***************************************************************************)
C11_TypesCatalog ==
    [][(/\ ReadStep /\ route' = "handleHeader" /\ or.version = 2 /\ Went(err')
        /\ IsTypesLine(line'))
       => /\ (/\ IsTypesFirst(line') /\ DOMAIN or.Observations = {}
              /\ TypesDeclared(line') = Len(TypesListed(line')))
             => EntryOf(or', " ").codes = TypesListed(line')
          /\ (/\ ~IsTypesFirst(line')
              /\ route = "handleHeader" /\ Went(err) /\ IsTypesFirst(line)
              /\ TypesDeclared(line) = Len(TypesListed(line)) + Len(TypesListed(line')))
             => EntryOf(or', " ").codes = TypesListed(line) \o TypesListed(line')
      ]_vars

(***************************************************************************)
(* C12: in a version-3 header a 'SYS / # / OBS TYPES' sequence declaring n  *)
(* codes for system S over ceil(n/13) lines gives exactly those n codes in  *)
(* their order under key S, leaves every other entry as it was, and clears  *)
(* the marker of the system being declared exactly when the entry has n     *)
(* codes.                                                                   *)
(***************************************************************************)
C12_SysCatalog ==
    [][(/\ ReadStep /\ route' = "handleHeader" /\ or.version = 3 /\ Went(err')
        /\ IsSysLine(line'))
       => /\ (/\ IsSysFirst(line') /\ or.lastSystem = 0
              /\ Len(SysListed(line')) = IF SysDeclared(line') < 13
                                         THEN SysDeclared(line') ELSE 13)
             => /\ EntryOf(or', line'[1]).codes = SysListed(line')
                /\ DOMAIN or'.Observations = DOMAIN or.Observations \cup {line'[1]}
                /\ \A k \in DOMAIN or.Observations \ {line'[1]} :
                      or'.Observations[k] = or.Observations[k]
                /\ (or'.lastSystem = 0) <=> (Len(SysListed(line')) = SysDeclared(line'))
                /\ or'.lastSystem # 0 => or'.lastSystem = Ord(line'[1])
          /\ (/\ ~IsSysFirst(line')
              /\ route = "handleHeader" /\ Went(err) /\ IsSysFirst(line)
              /\ or.lastSystem = Ord(line[1])
              /\ SysDeclared(line) = Len(SysListed(line)) + Len(SysListed(line')))
             => /\ EntryOf(or', line[1]).codes = SysListed(line) \o SysListed(line')
                /\ DOMAIN or'.Observations = DOMAIN or.Observations
                /\ \A k \in DOMAIN or.Observations \ {line[1]} :
                      or'.Observations[k] = or.Observations[k]
                /\ or'.lastSystem = 0
      ]_vars

\* 14 codes for 'R' over two lines, beside the entry of 'G'.
C12_Witness ==
    /\ route = "handleHeader" /\ result = "running" /\ line = hSysCont
    /\ or.version = 3 /\ or.lastSystem = 0
    /\ CatalogLen(or, "R") = 14 /\ CatalogLen(or, "G") = 1

(***************************************************************************)
(* C13: a catalog entry that has reached its declared length (the length    *)
(* it was allocated for) is not changed by any later line of the stream.    *)
(***************************************************************************)
C13_CompleteEntryImmutable ==
    [][ReadStep =>
          \A k \in DOMAIN or.Observations :
              Len(or.Observations[k].codes) = or.Observations[k].cap
              => /\ k \in DOMAIN or'.Observations
                 /\ or'.Observations[k].codes = or.Observations[k].codes
      ]_vars

(***************************************************************************)
(* C14: in every record passed to the observation callback each satellite   *)
(* has exactly as many observations as the catalog entry of its system      *)
(* (version 3) or the universal catalog (version 2) has codes; the same     *)
(* holds of the satellite a version-3 satellite line has just stored.       *)
(***************************************************************************)
CatalogKey(o, sat) == IF o.version = 3 THEN sat.PRN[1] ELSE " "

C14_ObsCountIsCatalogLength ==
    /\ (calls # <<>> /\ calls[1].fn = "ObsFunc")
       => \A i \in 1..Len(calls[1].rec.Sat) :
             Len(calls[1].rec.Sat[i].Obs) = CatalogLen(or, CatalogKey(or, calls[1].rec.Sat[i]))
    /\ (/\ route = "parseV3" /\ err = NIL /\ line # <<>> /\ line[1] # ">")
       => Len(or.obsRec.Sat.arr[or.obsRec.Sat.len].Obs) = CatalogLen(or, line[1])

\* A version-2 record with a satellite of one observation, the catalog
\* holding one code.
C14_Witness ==
    /\ route = "parseV2" /\ OneObsCall(calls) /\ or.version = 2
    /\ CatalogLen(or, " ") = 1
    /\ Len(calls[1].rec.Sat) = 1 /\ Len(calls[1].rec.Sat[1].Obs) = 1

(***************************************************************************)
(* The PRN list of a version-2 line, read from the source line: the slots   *)
(* of three columns from column 33 on, up to the first one whose third      *)
(* column is blank, a blank system letter standing for GPS.                 *)
(***************************************************************************)
PrnSlot(raw, i) == SubSeq(raw \o Spaces(LineWidth - Len(raw)), 30 + 3 * i, 32 + 3 * i)
PrnCount(raw) == Cardinality({i \in 1..12 : \A j \in 1..i : PrnSlot(raw, j)[3] # " "})
SourcePRNs(raw) ==
    [i \in 1..PrnCount(raw) |->
        IF PrnSlot(raw, i)[1] = " "
        THEN <<"G", PrnSlot(raw, i)[2], PrnSlot(raw, i)[3]>>
        ELSE PrnSlot(raw, i)]
\* The identifiers of the satellite list of a record, in its order.
PRNsOf(sats) == [i \in 1..Len(sats) |-> sats[i].PRN]

(***************************************************************************)
(* C15: the satellite list of a version-2 epoch with flag 0, 1 or 6 is the  *)
(* PRN list of the source in its order: the identifiers of the intro line,  *)
(* then those of each PRN continuation line; observation lines leave it as  *)
(* it is, and the record emitted has this list, of the declared count of    *)
(* satellites.                                                              *)
(***************************************************************************)
C15_SatellitesInSourceOrder ==
    [][(ReadStep /\ route' = "parseV2" /\ Went(err')) =>
          /\ (or.lastSystem = 0 /\ or'.obsRec.EpochFlag \in {0, 1, 6})
             => /\ PRNsOf(Visible(or'.obsRec).Sat) = SourcePRNs(line')
                /\ or'.count = DecValue(TrimSpace(SubSeq(line', 30, 32)))
          /\ or.lastSystem = 1
             => PRNsOf(Visible(or'.obsRec).Sat)
                    = PRNsOf(Visible(or.obsRec).Sat) \o SourcePRNs(line')
          /\ or.lastSystem >= 2
             => PRNsOf(Visible(or'.obsRec).Sat) = PRNsOf(Visible(or.obsRec).Sat)
          /\ (calls' # <<>> /\ calls'[1].rec.EpochFlag \in {0, 1, 6})
             => /\ PRNsOf(calls'[1].rec.Sat) = PRNsOf(Visible(or'.obsRec).Sat)
                /\ Len(calls'[1].rec.Sat) = or'.count
       ]_vars

\* Thirteen satellites, the thirteenth from the continuation line.
C15_Witness ==
    /\ route = "parseV2" /\ result = "running" /\ line = p2Cont
    /\ or.count = 13 /\ or.lastSystem = 2
    /\ PRNsOf(Visible(or.obsRec).Sat) = SourcePRNs(i2Epoch13) \o <<<<"G", "1", "3">>>>

(***************************************************************************)
(* C16: a version-3 satellite line of a catalogued system, whatever its     *)
(* length, is decoded without failure when the value fields it holds in     *)
(* full are numbers (and the satellite list has room for it): it stores one *)
(* observation per code, and an observation whose columns all lie beyond    *)
(* the end of the line is zero.                                             *)
(***************************************************************************)
\* The satellite a version-3 satellite line has stored.
StoredV3(o) == o.obsRec.Sat.arr[o.obsRec.Sat.len]

C16_ShortSatelliteLine ==
    [][(/\ ReadStep /\ route' = "parseV3"
        /\ Len(line') >= 3 /\ line'[1] \in DOMAIN or.Observations
        /\ or.obsRec.Sat.len < Len(or.obsRec.Sat.arr)
        /\ \A i \in 0..(CatalogLen(or, line'[1]) - 1) :
              Len(line') >= 17 + 16 * i
              => parseFloat(SubSeq(line', 4 + 16 * i, 17 + 16 * i), 64).err = NIL)
       => /\ err' = NIL
          /\ Len(StoredV3(or').Obs) = CatalogLen(or, line'[1])
          /\ \A i \in 0..(CatalogLen(or, line'[1]) - 1) :
                Len(line') <= 3 + 16 * i => StoredV3(or').Obs[i + 1] = ZeroObservation
      ]_vars

(***************************************************************************)
(* C17: in every observation a decoder stores, the loss-of-lock indicator   *)
(* and the signal strength are 0 when their column is blank (or beyond the  *)
(* end of a version-3 line) and the digit value when it holds a digit.      *)
(* The columns are 15 and 16 of the 16-column field in version 2, and 19    *)
(* and 20 (plus 16 per field) of the line in version 3.                     *)
(***************************************************************************)
IndicatorOf(v, c) == (c = " " => v = 0) /\ (c \in Digits => v = Ord(c) - 48)
ColumnOf(raw, k) == IF k <= Len(raw) THEN raw[k] ELSE " "
FieldsOnLine(n) == IF n < 5 THEN n ELSE 5

C17_IndicatorsAreDigits ==
    [][(ReadStep /\ err' = NIL) =>
          /\ (route' = "parseV2" /\ or.lastSystem >= 2)
             => \A i \in 0..(FieldsOnLine(CatalogLen(or, " ") - or.obsIndex) - 1) :
                   /\ IndicatorOf(
                        or'.obsRec.Sat.arr[or.prnIndex + 1].Obs[or.obsIndex + i + 1].LLI,
                        ColumnOf(line', 16 * i + 15))
                   /\ IndicatorOf(
                        or'.obsRec.Sat.arr[or.prnIndex + 1].Obs[or.obsIndex + i + 1].SignalStrength,
                        ColumnOf(line', 16 * i + 16))
          /\ (route' = "parseV3" /\ line'[1] # ">")
             => \A i \in 0..(CatalogLen(or, line'[1]) - 1) :
                   /\ IndicatorOf(StoredV3(or').Obs[i + 1].LLI,
                                  ColumnOf(line', 16 * i + 19))
                   /\ IndicatorOf(StoredV3(or').Obs[i + 1].SignalStrength,
                                  ColumnOf(line', 16 * i + 20))
       ]_vars

(***************************************************************************)
(* C18: on a version-2 observation line, a field whose 11th character is    *)
(* not '.' is stored with the value 0 and is not parsed (it cannot fail);   *)
(* a field whose 11th character is '.' is stored with the number its first  *)
(* 14 columns hold, or the line fails with the error of parsing them.       *)
(***************************************************************************)
\* The i-th 16-column field of the padded line, and its first 14 columns.
FieldPoint(raw, i) == Frame(raw)[16 * i + 11] = "."
FieldNumber(raw, i) == parseFloat(SubSeq(Frame(raw), 16 * i + 1, 16 * i + 14), 64)
FieldFails(raw, i) == FieldPoint(raw, i) /\ FieldNumber(raw, i).err # NIL
\* The observation stored for field i of the line read from state o into p.
StoredV2(o, p, i) == p.obsRec.Sat.arr[o.prnIndex + 1].Obs[o.obsIndex + i + 1]

C18_DecimalPointDecides ==
    [][(/\ ReadStep /\ route' = "parseV2"
        /\ or.lastSystem >= 2 /\ or.prnIndex < or.obsRec.Sat.len)
       => /\ \A i \in 0..(FieldsOnLine(CatalogLen(or, " ") - or.obsIndex) - 1) :
                (\A j \in 0..(i - 1) : ~FieldFails(line', j))
                => IF ~FieldPoint(line', i)
                   THEN StoredV2(or, or', i).Value = Zero
                   ELSE IF FieldNumber(line', i).err = NIL
                   THEN StoredV2(or, or', i).Value = FieldNumber(line', i).v
                   ELSE err' = FieldNumber(line', i).err
          /\ (\A i \in 0..(FieldsOnLine(CatalogLen(or, " ") - or.obsIndex) - 1) :
                 ~FieldFails(line', i))
             => Went(err')
      ]_vars

\* An emitted record whose only observation comes from a field that holds a
\* number but no decimal point in its 11th column.
C18_Witness ==
    /\ route = "parseV2" /\ line = o2NoPoint /\ OneObsCall(calls)
    /\ parseFloat(SubSeq(Frame(line), 1, 14), 64).v # Zero
    /\ Len(calls[1].rec.Sat) = 1 /\ Len(calls[1].rec.Sat[1].Obs) = 1
    /\ calls[1].rec.Sat[1].Obs[1].Value = Zero

(***************************************************************************)
(* C19: a version-2 PRN is stored as the three columns of its slot with a   *)
(* blank second column replaced by '0' ("G 9" becomes "G09") and a blank    *)
(* system letter replaced by 'G', and with no other change.                 *)
(***************************************************************************)
NormalPRN(slot) ==
    <<IF slot[1] = " " THEN "G" ELSE slot[1],
      IF slot[2] = " " THEN "0" ELSE slot[2],
      slot[3]>>
NormalPRNs(raw) == [i \in 1..PrnCount(raw) |-> NormalPRN(PrnSlot(raw, i))]

C19_PRNNormalised ==
    [][(ReadStep /\ route' = "parseV2" /\ Went(err')) =>
          /\ (or.lastSystem = 0 /\ or'.obsRec.EpochFlag \in {0, 1, 6})
             => PRNsOf(Visible(or'.obsRec).Sat) = NormalPRNs(line')
          /\ or.lastSystem = 1
             => PRNsOf(Visible(or'.obsRec).Sat)
                    = PRNsOf(Visible(or.obsRec).Sat) \o NormalPRNs(line')
       ]_vars

(***************************************************************************)
(* C20: while the reader is in header mode or the stream is version 2, a    *)
(* line of more than 80 bytes makes Parse fail with "Oversized input line"  *)
(* before any handler sees it, and a shorter line is handled as the line    *)
(* padded with blanks to 80 columns; in data mode of a version-3 stream the *)
(* line is handled as read, unpadded, and a line of more than 80 bytes is   *)
(* accepted.                                                                *)
(***************************************************************************)
Padded(raw) == [i \in 1..LineWidth |-> IF i <= Len(raw) THEN raw[i] ELSE " "]
\* The step left the reader, the error and the callbacks as the handler did.
SameOutcome(r) == r = [or |-> or', err |-> err', calls |-> calls']

C20_Framing ==
    [][ReadStep =>
          /\ (or.inHeader \/ or.version = 2)
             => IF Len(line') > LineWidth
                THEN /\ route' = "framer" /\ result' = "error"
                     /\ err' = "Oversized input line"
                     /\ or' = or /\ calls' = <<>>
                ELSE IF or.inHeader
                THEN /\ route' = "handleHeader"
                     /\ \E cb \in CallbackReturns :
                           SameOutcome(handleHeader(or, Padded(line'), cb))
                     /\ \A k \in 1..Len(calls') :
                           Len(calls'[k].value \o calls'[k].label) = LineWidth
                ELSE /\ route' = "parseV2"
                     /\ \E cb \in CallbackReturns :
                           SameOutcome(parseV2(or, Padded(line'), cb))
          /\ (~or.inHeader /\ or.version = 3)
             => /\ route' = "parseV3" /\ err' # "Oversized input line"
                /\ \E cb \in CallbackReturns : SameOutcome(parseV3(or, line', cb))
       ]_vars

\* A satellite line of 81 columns decoded in data mode of a version-3 stream.
C20_Witness ==
    /\ route = "parseV3" /\ result = "running" /\ err = NIL
    /\ Len(line) > LineWidth /\ line[1] # ">"
    /\ or.obsRec.Sat.len >= 1

(***************************************************************************)
(* C21: a 'RINEX VERSION / TYPE' line is accepted only if the number in     *)
(* columns 1-9 rounds to 2 or 3 and column 21 is 'O'; then the version is   *)
(* recorded and the line goes on to the header callback.  Any other line    *)
(* with this label makes Parse fail, and the header callback is not called. *)
(***************************************************************************)
VersionNumber(raw) == parseFloat(SubSeq(Padded(raw), 1, 9), 32)
GoodVersion(raw) ==
    /\ VersionNumber(raw).err = NIL
    /\ Round(VersionNumber(raw).v) \in {2, 3}
    /\ Padded(raw)[21] = "O"

C21_VersionLine ==
    [][(ReadStep /\ route' = "handleHeader" /\ LabelOfLine(line') = LabelVersion) =>
          IF GoodVersion(line')
          THEN /\ Went(err')
               /\ or'.version = Round(VersionNumber(line').v)
               /\ or.HeaderFunc => Len(calls') = 1
          ELSE result' = "error" /\ calls' = <<>>
       ]_vars

\* A version-2 navigation file refused, the header callback being set.
C21_Witness ==
    /\ route = "handleHeader" /\ line = hV2N /\ or.HeaderFunc
    /\ result = "error" /\ calls = <<>>

(***************************************************************************)
(* C22: two readers parsing concurrently do not affect each other: in every *)
(* interleaving of their steps, the reader, the result, the error and the   *)
(* callback invocations of each goroutine are those of the same reader      *)
(* parsing the lines it has read so far on its own.                         *)
(***************************************************************************)
\* Parse run alone from the state st over the lines ins, each with what the
\* callback returns.
RECURSIVE RunAlone(_, _)
AloneAfter(st, r) ==
    [or |-> r.or, result |-> Outcome(r.err), err |-> r.err, calls |-> st.calls \o r.calls]
RunAlone(st, ins) ==
    IF ins = <<>> THEN st
    ELSE RunAlone(AloneAfter(st, ParseLine(st.or, ins[1][1], ins[1][2])), Tail(ins))
AloneStart ==
    [or |-> Begun(NewReader(TRUE, TRUE)), result |-> "running", err |-> NIL,
     calls |-> <<>>]
SameAsAlone(p, a) ==
    /\ p.or = a.or /\ p.err = a.err /\ p.calls = a.calls
    /\ p.result \in {a.result, "ok"}
    /\ p.result = "ok" => a.result = "running"

C22_ReadersIndependent ==
    \A i \in DOMAIN peers :
        IF peers[i].result = "idle" THEN peers[i] = NewPeer
        ELSE SameAsAlone(peers[i], RunAlone(AloneStart, peers[i].done))

\* Both goroutines in data mode at once, one in a version-2 file and one in
\* a version-3 file.
C22_Witness ==
    /\ DOMAIN peers = Instances
    /\ \A i \in Instances : peers[i].result = "running" /\ ~peers[i].or.inHeader
                            /\ Len(peers[i].done) >= 4
    /\ peers[1].or.version = 3 /\ peers[2].or.version = 2
    /\ CatalogLen(peers[1].or, "G") = 1 /\ CatalogLen(peers[2].or, "G") = 0

(***************************************************************************)
(* C23: the input may end in any state of a running Parse call, and Parse   *)
(* then returns success: no error, no callback invocation and the reader    *)
(* left as it was, also when the lines of an epoch are still outstanding.   *)
(***************************************************************************)
C23_EndOfInputIsSuccess ==
    /\ [](result = "running" => ENABLED EndOfInput)
    /\ [][(result = "running" /\ route' = "eof")
          => (result' = "ok" /\ err' = NIL /\ calls' = <<>> /\ or' = or)]_vars

\* The input of a version-2 stream ended while the observation lines of an
\* epoch were outstanding, the observation callback being set.
C23_Witness ==
    /\ result = "ok" /\ route = "eof" /\ err = NIL /\ calls = <<>>
    /\ or.ObsFunc /\ or.version = 2 /\ ~or.inHeader
    /\ or.lastSystem >= 2 /\ or.obsRec.Sat.len >= 1

(***************************************************************************)
(* C24: every record handed to the observation callback has an epoch flag   *)
(* from 0 to 6.                                                             *)
(***************************************************************************)
C24_EmittedFlagInRange ==
    \A k \in 1..Len(calls) :
        calls[k].fn = "ObsFunc" => calls[k].rec.EpochFlag \in 0..6

(***************************************************************************)
(* C25: an intro line with flag 0, 1 or 6 that carries no receiver clock    *)
(* offset (offset columns blank, or in version 3 beyond the end of the      *)
(* line) and whose count, date and time are read well leaves the record     *)
(* with Offset 0 and does not fail on the offset; the record a version-2    *)
(* epoch emits carries the Offset its intro line left.                      *)
(***************************************************************************)
Blank(text) == \A k \in 1..Len(text) : text[k] = " "
\* The intro line is read well up to the offset: flag 0, 1 or 6, a count and
\* a timestamp.
IntroReadV2(o, raw) ==
    /\ Padded(raw)[29] \in {"0", "1", "6"}
    /\ parseUint(SubSeq(Padded(raw), 30, 32), 16).err = NIL
    /\ parseV2Epoch(o, Padded(raw), Padded(raw)[29]).err = NIL
IntroReadV3(o, raw) ==
    /\ Len(raw) >= 35 /\ raw[29] \in {"0", "1", "6"}
    /\ parseUint(SubSeq(raw, 33, 35), 16).err = NIL
    /\ parseV3Epoch(o, raw, raw[29]).err = NIL

C25_AbsentOffsetIsZero ==
    [][ReadStep =>
          /\ (/\ route' = "parseV2" /\ or.lastSystem = 0
              /\ IntroReadV2(or, line') /\ Blank(SubSeq(Padded(line'), 69, 80)))
             => /\ or'.obsRec.Offset = Zero
                /\ err' # "strconv.ParseFloat: invalid syntax"
          /\ (/\ route' = "parseV3" /\ Len(line') >= 1 /\ line'[1] = ">"
              /\ IntroReadV3(or, line')
              /\ Len(line') < 56 \/ Blank(SubSeq(line', 42, 56)))
             => or'.obsRec.Offset = Zero /\ err' = NIL
          /\ (route' = "parseV2" /\ or.lastSystem >= 2 /\ calls' # <<>>)
             => calls'[1].rec.Offset = or.obsRec.Offset
       ]_vars

(***************************************************************************)
(* C26: on a version-3 satellite line of a catalogued system, an            *)
(* observation field whose columns lie within the line and are all blank is *)
(* stored as an absent observation (value 0, LLI 0, signal strength 0), and *)
(* the line does not make Parse fail.                                       *)
(***************************************************************************)
\* Field i of the satellite line: 16 columns from column 4 + 16 i on.
BlankFieldV3(raw, i) ==
    /\ Len(raw) >= 19 + 16 * i
    /\ Blank(SubSeq(raw, 4 + 16 * i, 19 + 16 * i))

C26_BlankFieldIsAbsent ==
    [][(/\ ReadStep /\ route' = "parseV3"
        /\ Len(line') >= 3 /\ line'[1] \in DOMAIN or.Observations
        /\ or.obsRec.Sat.len < Len(or.obsRec.Sat.arr)
        /\ \A i \in 0..(CatalogLen(or, line'[1]) - 1) :
              (Len(line') >= 17 + 16 * i /\ ~BlankFieldV3(line', i))
              => /\ parseFloat(SubSeq(line', 4 + 16 * i, 17 + 16 * i), 64).err = NIL
                 /\ Len(line') >= 20 + 16 * i)
       => /\ err' = NIL
          /\ \A i \in 0..(CatalogLen(or, line'[1]) - 1) :
                BlankFieldV3(line', i) => StoredV3(or').Obs[i + 1] = ZeroObservation
      ]_vars

(***************************************************************************)
(* C27: when the PRN list of a version-2 line (an intro line read well, or  *)
(* a PRN continuation line) reaches a slot whose third column is blank,     *)
(* Parse fails with "PRN list terminated early" if fewer identifiers than   *)
(* the declared count have been read, and the list ends without error if    *)
(* the number read equals the declared count.                               *)
(***************************************************************************)
\* The intro line is read well up to its PRN list.
IntroListV2(o, raw) ==
    /\ IntroReadV2(o, raw)
    /\ Padded(raw)[80] # " " => parseFloat(SubSeq(Padded(raw), 69, 80), 64).err = NIL
\* The identifiers read before the line, and the declared count.
ReadBefore(o) == IF o.lastSystem = 1 THEN o.obsRec.Sat.len ELSE 0
DeclaredOn(o, raw) ==
    IF o.lastSystem = 1 THEN o.count
    ELSE parseUint(SubSeq(Padded(raw), 30, 32), 16).v

C27_PrematureEndOfPRNs ==
    [][(/\ ReadStep /\ route' = "parseV2"
        /\ or.lastSystem = 1 \/ (or.lastSystem = 0 /\ IntroListV2(or, line'))
        /\ PrnCount(line') < 12)
       => /\ ReadBefore(or) + PrnCount(line') < DeclaredOn(or, line')
             => err' = "PRN list terminated early" /\ result' = "error"
          /\ ReadBefore(or) + PrnCount(line') = DeclaredOn(or, line')
             => /\ err' = NIL /\ or'.lastSystem = 2
                /\ or'.obsRec.Sat.len = DeclaredOn(or, line')
      ]_vars

\* A continuation line with a blank first slot, 12 of 13 identifiers read.
C27_Witness ==
    /\ route = "parseV2" /\ result = "error" /\ err = "PRN list terminated early"
    /\ or.lastSystem = 1 /\ or.count = 13 /\ or.obsRec.Sat.len = 12
    /\ PrnCount(line) = 0

(***************************************************************************)
(* C28: in the observation state of a version-2 stream whose universal      *)
(* catalog has n codes, the j-th line of a satellite holds the fields       *)
(* 5(j-1)+1 .. min(n, 5j): field k of the line is stored at position        *)
(* 5(j-1)+k, no more than 5 are stored, what earlier lines stored is kept,  *)
(* and the decoder goes on to the next satellite exactly on line            *)
(* max(1, ceil(n/5)).  Checked on the lines the concurrent readers read.    *)
(***************************************************************************)
LinesPerSat(n) == IF n = 0 THEN 1 ELSE (n + 4) \div 5
\* The line the goroutine p is about to read, and the satellite it is about.
NextLine(p) == Head(p.todo)
ObsOf(o, prn) == o.obsRec.Sat.arr[prn + 1].Obs
\* p is a goroutine about to read an observation line whose fields are read
\* well, and q is the same goroutine after it.
ObsLineRead(p, q) ==
    /\ q.done # p.done
    /\ ~p.or.inHeader /\ p.or.version = 2 /\ p.or.lastSystem >= 2
    /\ p.or.prnIndex < p.or.obsRec.Sat.len
    /\ \A k \in 0..4 : k < CatalogLen(p.or, " ") - p.or.obsIndex
                       => ~FieldFails(NextLine(p), k)
FieldsStored(p, q, n, j) ==
    /\ Len(ObsOf(q.or, p.or.prnIndex)) = (IF n < 5 * j THEN n ELSE 5 * j)
    /\ \A m \in 1..(5 * (j - 1)) :
          ObsOf(q.or, p.or.prnIndex)[m] = ObsOf(p.or, p.or.prnIndex)[m]
    /\ \A k \in 1..5 :
          5 * (j - 1) + k <= n
          => /\ ObsOf(q.or, p.or.prnIndex)[5 * (j - 1) + k].Value
                   = (IF FieldPoint(NextLine(p), k - 1)
                      THEN FieldNumber(NextLine(p), k - 1).v ELSE Zero)
             /\ IndicatorOf(ObsOf(q.or, p.or.prnIndex)[5 * (j - 1) + k].SignalStrength,
                            ColumnOf(NextLine(p), 16 * k))
SatelliteAdvance(p, q, n, j) ==
    IF j = LinesPerSat(n)
    THEN /\ q.or.obsIndex = 0
         /\ \/ q.or.prnIndex = p.or.prnIndex + 1 /\ q.calls = p.calls
            \/ /\ p.or.prnIndex + 1 = p.or.count /\ q.or.prnIndex = 0
               /\ Len(q.calls) = Len(p.calls) + 1
    ELSE /\ j < LinesPerSat(n)
         /\ q.or.prnIndex = p.or.prnIndex /\ q.or.obsIndex = 5 * j
         /\ q.calls = p.calls

C28_FiveFieldsPerLine ==
    [][\A i \in DOMAIN peers :
          (i \in DOMAIN peers' /\ ObsLineRead(peers[i], peers'[i]))
          => /\ peers[i].or.obsIndex % 5 = 0
             /\ FieldsStored(peers[i], peers'[i], CatalogLen(peers[i].or, " "),
                             peers[i].or.obsIndex \div 5 + 1)
             /\ SatelliteAdvance(peers[i], peers'[i], CatalogLen(peers[i].or, " "),
                                 peers[i].or.obsIndex \div 5 + 1)
      ]_vars

\* A record of two satellites emitted, each with six observations read from
\* two lines: the sixth is the first field of the second line.
C28_Witness ==
    \E i \in DOMAIN peers :
        /\ peers[i].calls # <<>>
        /\ LET c == peers[i].calls[Len(peers[i].calls)]
           IN  /\ c.fn = "ObsFunc" /\ Len(c.rec.Sat) = 2
               /\ Len(c.rec.Sat[1].Obs) = 6 /\ Len(c.rec.Sat[2].Obs) = 6
               /\ c.rec.Sat[1].Obs[5].SignalStrength = 5
               /\ c.rec.Sat[1].Obs[6].SignalStrength = 7
               /\ c.rec.Sat[2].Obs[6] = ZeroObservation

(***************************************************************************)
(* C29: a 'TIME OF FIRST OBS' or '# / TYPES OF OBSERV' line handled while   *)
(* the version is not 2, and a 'SYS / # / OBS TYPES' line handled while it  *)
(* is not 3, leaves the carried year, the catalog and the declaration       *)
(* marker as they were, does not fail, and goes to the header callback.     *)
(***************************************************************************)
OtherVersion(o, raw) ==
    \/ LabelOfLine(raw) \in {LabelTimeOfFirstObs, LabelTypesOfObserv} /\ o.version # 2
    \/ LabelOfLine(raw) = LabelSysObsTypes /\ o.version # 3

C29_OtherVersionNoEffect ==
    [][(ReadStep /\ route' = "handleHeader" /\ OtherVersion(or, line'))
       => /\ or'.year = or.year
          /\ or'.Observations = or.Observations
          /\ or'.lastSystem = or.lastSystem
          /\ Went(err')
          /\ or.HeaderFunc
             => calls' = <<HeaderCall(LabelOfLine(line'), SubSeq(Padded(line'), 1, 60),
                                      err')>>
      ]_vars

\* A 'TIME OF FIRST OBS' line of a version-3 header, delivered, the year
\* still 0.
C29_Witness ==
    /\ route = "handleHeader" /\ result = "running" /\ line = hTime
    /\ or.version = 3 /\ or.year = 0 /\ or.HeaderFunc /\ Len(calls) = 1

(***************************************************************************)
(* C30: a version-3 satellite line whose first character is not a key of    *)
(* the catalog makes Parse fail with "Unexpected GNSS type"; the record in  *)
(* progress keeps its satellite list and no callback is called.             *)
(***************************************************************************)
C30_UnknownSystem ==
    [][(/\ ReadStep /\ route' = "parseV3"
        /\ Len(line') >= 1 /\ line'[1] # ">"
        /\ line'[1] \notin DOMAIN or.Observations)
       => /\ err' = "Unexpected GNSS type" /\ result' = "error"
          /\ or'.obsRec = or.obsRec
          /\ calls' = <<>>
      ]_vars

\* A GPS satellite line refused in an epoch that expects one satellite, no
\* system being declared.
C30_Witness ==
    /\ route = "parseV3" /\ result = "error" /\ err = "Unexpected GNSS type"
    /\ line = s3Line /\ or.count = 1
    /\ or.obsRec.Sat.len = 0 /\ Len(or.obsRec.Sat.arr) >= 1

(***************************************************************************)
(* C31: while a version-2 parse is in header mode (the initial header or an *)
(* embedded block), the line-type state of the version-2 decoder is         *)
(* 'intro' (lastSystem = 0).                                                *)
(***************************************************************************)
C31_HeaderModeIsIntroState ==
    (result = "running" /\ or.version = 2 /\ or.inHeader) => or.lastSystem = 0

(***************************************************************************)
(* C32: every line that Parse reads is handed to exactly one of the header  *)
(* dispatcher, the version-2 decoder and the version-3 decoder, unless the  *)
(* framer fails on it, and a call that has returned reads nothing more.     *)
(***************************************************************************)
C32_EveryLineIsDecoded ==
    [][ReadStep =>
         /\ result = "running"
         /\ \/ route' \in {"handleHeader", "parseV2", "parseV3"}
            \/ route' = "framer" /\ result' = "error"]_vars

(***************************************************************************)
(* C33: a version-2 intro line with flag 0, 1 or 6 that is read well and    *)
(* declares 0 satellites yields one record with an empty satellite list,    *)
(* and leaves the decoder in the intro state, so that the next data line is *)
(* decoded as an intro line.  Checked on the lines the concurrent readers   *)
(* read.                                                                    *)
(***************************************************************************)
\* p is a goroutine about to read such an intro line, q the same goroutine
\* after it.
EmptyEpochRead(p, q) ==
    /\ q.done # p.done
    /\ ~p.or.inHeader /\ p.or.version = 2 /\ p.or.lastSystem = 0
    /\ IntroListV2(p.or, NextLine(p))
    /\ DeclaredOn(p.or, NextLine(p)) = 0

C33_EmptyEpochIsEmitted ==
    [][\A i \in DOMAIN peers :
          (i \in DOMAIN peers' /\ EmptyEpochRead(peers[i], peers'[i]))
          => /\ Len(peers'[i].calls) = Len(peers[i].calls) + 1
             /\ OneObsCall(<<peers'[i].calls[Len(peers'[i].calls)]>>)
             /\ peers'[i].calls[Len(peers'[i].calls)].rec.Sat = <<>>
             /\ peers'[i].or.lastSystem = 0
      ]_vars

(***************************************************************************)
(* C35: a version-2 line whose PRN list is read (an intro line read well,   *)
(* or a PRN continuation line) leaves no more satellites in the current     *)
(* epoch than its intro line declared, and does not reach beyond the        *)
(* capacity reserved for them.                                              *)
(***************************************************************************)
C35_PRNsWithinDeclaredCount ==
    [][(/\ ReadStep /\ route' = "parseV2"
        /\ or.lastSystem = 1 \/ (or.lastSystem = 0 /\ IntroListV2(or, line')))
       => /\ err' \notin Panics
          /\ or'.obsRec.Sat.len <= or'.count
      ]_vars

(***************************************************************************)
(* C36: a version-3 satellite line of a catalogued system leaves no more    *)
(* satellites in the current epoch than its intro line declared, and does   *)
(* not reach beyond the capacity reserved for them.                         *)
(***************************************************************************)
C36_SatellitesWithinDeclaredCount ==
    [][(/\ ReadStep /\ route' = "parseV3"
        /\ Len(line') >= 3 /\ line'[1] \in DOMAIN or.Observations)
       => /\ err' \notin Panics
          /\ or'.obsRec.Sat.len <= or'.count
      ]_vars

(***************************************************************************)
(* C37: across a version-2 parse the carried four-digit year (at most 9999) *)
(* never decreases: a dated intro line leaves it greater than or equal to   *)
(* what it was, and an intro line with a blank date, a PRN continuation or  *)
(* observation line, and a header line other than 'TIME OF FIRST OBS' leave *)
(* it as it was.                                                            *)
(***************************************************************************)
DatedV2(raw) == Padded(raw)[3] # " "

C37_YearNeverDecreases ==
    [][(ReadStep /\ or.version = 2 /\ or.year <= 9999)
       => /\ (route' = "parseV2" /\ or.lastSystem = 0 /\ DatedV2(line'))
             => or'.year >= or.year
          /\ (route' = "parseV2" /\ ~(or.lastSystem = 0 /\ DatedV2(line')))
             => or'.year = or.year
          /\ (route' = "handleHeader" /\ LabelOfLine(line') # LabelTimeOfFirstObs)
             => or'.year = or.year
          /\ route' = "framer" => or'.year = or.year
      ]_vars

\* Carried 2005 from the header, an event dated 06, then a cycle-slip line
\* with a blank date: the year is 2006.
C37_Witness ==
    /\ route = "parseV2" /\ result = "running" /\ line = i2Slip6Blank
    /\ or.version = 2 /\ or.year = 2006 /\ nread = 5

(***************************************************************************)
(* C38: a reader with HeaderFunc or ObsFunc unset handles every line as a   *)
(* reader with both set does when the callback that was unset returns nil:  *)
(* the reader is left in the same state (mode, catalog, record), the same   *)
(* error ends or continues the call, and the invocations of the callback    *)
(* that is set are the same.  The two runs therefore stay in step line     *)
(* after line.                                                              *)
(***************************************************************************)
BothSet(o) == [o EXCEPT !.HeaderFunc = TRUE, !.ObsFunc = TRUE]
IsSet(o, fn) == IF fn = "HeaderFunc" THEN o.HeaderFunc ELSE o.ObsFunc
CallsOfSet(o, cs) == SelectSeq(cs, LAMBDA c : IsSet(o, c.fn))

\* What the callback invoked in cs returned; nil stands for a callback that
\* is not set.
ReturnedIn(cs) == IF cs = <<>> THEN NIL ELSE cs[Len(cs)].ret
\* What the reader o, with its callbacks as they are, makes of the outcome
\* both of a reader with both callbacks set.
NilWhereUnset(o, both) ==
    \A k \in 1..Len(both.calls) : ~IsSet(o, both.calls[k].fn) => both.calls[k].ret = NIL
HandledAlike(o, both) ==
    /\ NilWhereUnset(o, both)
    /\ SameOutcome([or |-> [both.or EXCEPT !.HeaderFunc = o.HeaderFunc,
                                           !.ObsFunc = o.ObsFunc],
                    err |-> both.err,
                    calls |-> CallsOfSet(o, both.calls)])

C38_UnsetCallbackIsNil ==
    [][ReadStep =>
         /\ \E both \in {ParseLine(BothSet(or), line', ReturnedIn(calls'))} :
               HandledAlike(or, both)
         /\ result' = (IF err' = NIL THEN "running"
                       ELSE IF err' \in Panics THEN "panic" ELSE "error")
      ]_vars

\* With ObsFunc unset and HeaderFunc set, the last observation line of a
\* version-2 epoch completed the record and no callback was invoked.
C38_Witness ==
    /\ ~or.ObsFunc /\ or.HeaderFunc
    /\ route = "parseV2" /\ result = "running" /\ line = o2Line
    /\ or.lastSystem = 0 /\ or.obsRec.Sat.len = 1 /\ calls = <<>>

(***************************************************************************)
(* C34: a second Parse call on a reader gives, for the lines it has read,   *)
(* the callback invocations, the catalog and the result that a Parse call   *)
(* on a fresh reader gives for the same lines and callback returns,         *)
(* whatever state the first call ended in.                                  *)
(***************************************************************************)
C34_SecondParseAsFresh ==
    \A i \in DOMAIN peers :
        peers[i].parses = 2 =>
            \E fresh \in {RunAlone(AloneStart, peers[i].done)} :
                /\ peers[i].calls = fresh.calls
                /\ peers[i].or.Observations = fresh.or.Observations
                /\ peers[i].or.inHeader = fresh.or.inHeader
                /\ peers[i].err = fresh.err
                /\ peers[i].result \in {fresh.result, "ok"}

(***************************************************************************)
(* C39: the countobs pipeline never deadlocks (some goroutine can take a    *)
(* step until the program has ended), and when the program has ended every  *)
(* file that was opened and parsed has had its result received by           *)
(* reportResults: no result is still owed.                                  *)
(***************************************************************************)
PoolEnded == pool.main \in {"exit", "panic"}

C39_EveryResultReported ==
    /\ PoolEnded => pool.owed = {}
    /\ ~PoolEnded => ENABLED PoolNext
====
